---- MODULE Spec2Model ----
(***************************************************************************)
(* Continuity2017 consensus election (lib/consensus.js).                   *)
(*                                                                         *)
(* The state is a growing history of merge events (the global event DAG)   *)
(* and the derived per-event fields that findConsensus attaches to the     *)
(* events of a snapshot while it runs.  Event hashes are the positions of  *)
(* the events in `events`; the hash of the regular event listed by merge   *)
(* event e is -e.                                                          *)
(***************************************************************************)
EXTENDS Integers, Sequences, FiniteSets, TLC

VARIABLES
    events,         \* the merge events without consensus, in creation order
    electors,       \* the electors of the block (a sequence of creator ids)
    quiet,          \* rounds: the elector that stops after its tail, if any
    turn,           \* rounds: the elector whose turn it is
    forks,          \* number of fork events created so far
    solos,          \* rounds: number of out-of-turn events created so far
    lates,          \* rounds: number of events of a lagging elector so far
    replay,         \* the recorded history that is delivered (0: none)
    fresh,          \* events were added since findConsensus last ran
    pc,             \* "idle" | "tally" | "done"
    treeParent,     \* e._treeParent (NoEvent: null or not set)
    treeChildren,   \* e._treeChildren
    generation,     \* e._generation
    xByElector,     \* candidates.xByElector (keys in `ord`)
    yByElector,     \* candidates.yByElector (keys in `ord`)
    xDescendants,   \* y._xDescendants, by the elector of y
    yDescendants,   \* the _yDescendants object shared along a Y-branch
    yOf,            \* e._y
    votes,          \* e._votes (keys in `ord`)
    supporting,     \* e._supporting
    tallied,        \* the events that have _supporting
    preCommit,      \* e._preCommit
    confirmPoint,   \* e._confirmPoint
    toConfirm,      \* e._toConfirm
    current,        \* _tallyBranches: the not yet visited part of `current`
    next,           \* _tallyBranches: `next`
    result,         \* what findConsensus returned
    decided,        \* the first decision returned for this block height,
                    \* with the snapshot it was returned on
    cache,          \* the event cache in redis and the calls in flight
    listing         \* the order in which history.events lists the events,
                    \* and what findConsensus returned for the other order

vars == <<events, electors, quiet, turn, forks, solos, lates, replay, fresh, pc,
          treeParent, treeChildren, generation, xByElector, yByElector, xDescendants,
          yDescendants, yOf, votes, supporting, tallied, preCommit,
          confirmPoint, toConfirm, current, next, result, decided, cache,
          listing>>

\* the state of findConsensus and of the history it is given
consensusVars ==
    <<events, electors, quiet, turn, forks, solos, lates, replay, fresh, pc,
      treeParent, treeChildren, generation, xByElector, yByElector,
      xDescendants, yDescendants, yOf, votes, supporting, tallied, preCommit,
      confirmPoint, toConfirm, current, next, result, decided, listing>>

(***************************************************************************)
(* Bounds of the model.                                                    *)
(***************************************************************************)
MaxEvents == 7          \* gossip: events in the history
MaxCreators == 2        \* gossip: creators that author events
MaxForks == 1           \* fork events (second tail or second tree child)
MaxRegular == 1         \* merge events that list a regular event
MaxRoundEvents == 17    \* rounds: events in the history
MaxLate == 1            \* rounds: events of a lagging elector
MaxSolos == 2           \* rounds: out-of-turn events of the byzantine elector
MaxQuiet == 3           \* events in a history of more electors than creators
MaxByzantine == 1       \* rounds: f, of the n = 3f + 1 electors that take turns

NoEvent == 0            \* null / undefined event reference
FalseMark == -1         \* the value `false` stored in _votes and _toConfirm

ElectorCounts == {1, 2, 3, 4, 5, 7, 10, 13}
RoundElectors == 3 * MaxByzantine + 1
QuietElector == RoundElectors \div 2

(***************************************************************************)
(* Sequences as JavaScript arrays.                                         *)
(***************************************************************************)
SeqToSet(s) == {s[i] : i \in 1..Len(s)}

Includes(s, x) == \E i \in 1..Len(s) : s[i] = x

\* _.uniq: the first occurrence of every element, in order
Uniq(s) ==
    LET first == {i \in 1..Len(s) : \A j \in 1..(i - 1) : s[j] # s[i]}
        at == [k \in 1..Cardinality(first) |->
                 CHOOSE i \in first : Cardinality({j \in first : j < i}) = k - 1]
    IN [k \in 1..Cardinality(first) |-> s[at[k]]]

EventIds == 1..Len(events)

ElectorSet == SeqToSet(electors)

Creator(e) == events[e].creator

Parents(e) == events[e].parents

\* event.parentHash: the merge event parents and the regular event, if any
ParentHash(e) == events[e].parents \o (IF events[e].regular THEN <<0 - e>> ELSE <<>>)

\* fault: the electorCount <= 3 case left out
twoThirdsOfCount(electorCount) == (electorCount \div 3) * 2 + 1

twoThirdsMajority(electorCount) ==
    IF electorCount <= 3 THEN electorCount ELSE (electorCount \div 3) * 2 + 1

\* fault: a simple majority taken for the supermajority
SimpleMajority == Len(electors) \div 2 + 1

Supermajority == twoThirdsMajority(Len(electors))

(***************************************************************************)
(* _getElectorBranches: tree links, tails and generations.  history.events *)
(* is listed in creation order.                                            *)
(***************************************************************************)
\* fault: the tree parent looked up by treeHash alone, not among e._parents
TreeParentByHash(e) ==
    IF Creator(e) \in ElectorSet THEN events[e].treeHash ELSE NoEvent

\* e._treeParent = _.find(e._parents, p => p.eventHash === treeHash) || null
TreeParentOf(e) ==
    IF Creator(e) \in ElectorSet /\ Includes(Parents(e), events[e].treeHash)
    THEN events[e].treeHash ELSE NoEvent

\* history.events[i]: the events are listed in the order of their creation
\* or in the opposite order
Listed(i) == IF listing.reverse THEN Len(events) + 1 - i ELSE i

RECURSIVE TreeChildrenFrom(_, _)
TreeChildrenFrom(p, i) ==
    IF i > Len(events) THEN <<>>
    ELSE (IF TreeParentOf(Listed(i)) = p THEN <<Listed(i)>> ELSE <<>>)
         \o TreeChildrenFrom(p, i + 1)

\* e._treeChildren, in the order of history.events
TreeChildrenOf(p) == TreeChildrenFrom(p, 1)

RECURSIVE TailsFrom(_, _)
TailsFrom(elector, i) ==
    IF i > Len(events) THEN <<>>
    ELSE (IF Creator(Listed(i)) = elector /\ TreeParentOf(Listed(i)) = NoEvent
          THEN <<Listed(i)>> ELSE <<>>)
         \o TailsFrom(elector, i + 1)

\* electorTails[elector]
ElectorTails(elector) == IF elector \in ElectorSet THEN TailsFrom(elector, 1) ELSE <<>>

RECURSIVE TailKeysFrom(_, _)
TailKeysFrom(i, acc) ==
    IF i > Len(events) THEN acc
    ELSE TailKeysFrom(i + 1,
            IF Creator(Listed(i)) \in ElectorSet
               /\ TreeParentOf(Listed(i)) = NoEvent
               /\ ~Includes(acc, Creator(Listed(i)))
            THEN Append(acc, Creator(Listed(i))) ELSE acc)

\* Object.keys(electorTails): electors in the order of their first tail
electorsWithTails == TailKeysFrom(1, <<>>)

\* event._generation = generation for every event of a level
SetLevel(cur, g, gen) == [e \in EventIds |-> IF Includes(cur, e) THEN g ELSE gen[e]]

RECURSIVE TreeChildrenOfAll(_)
\* next.push(...event._treeChildren) for every event of current
TreeChildrenOfAll(cur) ==
    IF cur = <<>> THEN <<>>
    ELSE TreeChildrenOf(Head(cur)) \o TreeChildrenOfAll(Tail(cur))

RECURSIVE BranchLevelsFromOne(_, _)
\* fault: the generations are not counted up, every event gets generation 1
BranchLevelsFromOne(st, g) ==
    IF st.cur = <<>> THEN st.gen
    ELSE BranchLevelsFromOne([cur |-> TreeChildrenOfAll(st.cur),
                              gen |-> SetLevel(st.cur, 1, st.gen)], g + 1)

RECURSIVE BranchLevels(_, _)
\* the while loop of "set generations for each branch"
BranchLevels(st, g) ==
    IF st.cur = <<>> THEN st.gen
    ELSE BranchLevels([cur |-> TreeChildrenOfAll(st.cur),
                       gen |-> SetLevel(st.cur, g, st.gen)], g + 1)

RECURSIVE BranchGenerations(_)
\* "set generations for each branch": _generation of every event after the
\* branches of the first i electors with tails (NoEvent: none set)
BranchGenerations(i) ==
    IF i = 0 THEN [e \in EventIds |-> NoEvent]
    ELSE BranchLevels([cur |-> ElectorTails(electorsWithTails[i]),
                       gen |-> BranchGenerations(i - 1)], 1)

RECURSIVE GenerationOf(_)
\* the generation loop numbers the levels of the tree below each tail
GenerationOf(e) ==
    IF Creator(e) \notin ElectorSet THEN 0
    ELSE IF TreeParentOf(e) = NoEvent THEN 1
    ELSE GenerationOf(TreeParentOf(e)) + 1

(***************************************************************************)
(* Shared graph utilities.  A descendants map is a function from event     *)
(* hash to the array stored under that key (<<>>: no such key); an         *)
(* ancestry map is the set of its keys.                                    *)
(***************************************************************************)
EmptyMap == [h \in EventIds |-> <<>>]

Keys(descendants) == {h \in DOMAIN descendants : descendants[h] # <<>>}

RECURSIVE AncestryFrom(_, _)
AncestryFrom(nxt, map) ==
    IF nxt = {} THEN map
    ELSE LET new == nxt \ map
         IN AncestryFrom(UNION {SeqToSet(Parents(e)) : e \in new}, map \cup new)

\* _buildAncestryMap: the hashes of event and of all its ancestors
buildAncestryMap(event) == AncestryFrom({event}, {})

RECURSIVE PathParentsFirst(_, _, _, _)
\* fault: a parent that is in the map already gets no further descendant
PathParentsFirst(event, i, descendants, nxt) ==
    IF i > Len(Parents(event)) THEN [descendants |-> descendants, nxt |-> nxt]
    ELSE LET parent == Parents(event)[i]
         IN IF descendants[parent] # <<>>
            THEN PathParentsFirst(event, i + 1, descendants, nxt)
            ELSE PathParentsFirst(event, i + 1,
                    [descendants EXCEPT ![parent] = <<event>>], Append(nxt, parent))

RECURSIVE PathParents(_, _, _, _)
\* the loop over event._parents of _findDescendantsInPath
PathParents(event, i, descendants, nxt) ==
    IF i > Len(Parents(event)) THEN [descendants |-> descendants, nxt |-> nxt]
    ELSE LET parent == Parents(event)[i]
             d == descendants[parent]
         IN IF d # <<>>
            THEN PathParents(event, i + 1,
                    IF Includes(d, event) THEN descendants
                    ELSE [descendants EXCEPT ![parent] = Append(d, event)], nxt)
            ELSE PathParents(event, i + 1,
                    [descendants EXCEPT ![parent] = <<event>>], Append(nxt, parent))

RECURSIVE PathLevel(_, _, _, _, _)
PathLevel(cur, j, descendants, nxt, ancestryMap) ==
    IF j > Len(cur) THEN [descendants |-> descendants, nxt |-> nxt]
    ELSE IF cur[j] \in ancestryMap
         THEN PathLevel(cur, j + 1, descendants, nxt, ancestryMap)
         ELSE LET r == PathParents(cur[j], 1, descendants, nxt)
              IN PathLevel(cur, j + 1, r.descendants, r.nxt, ancestryMap)

RECURSIVE PathLevels(_, _, _)
PathLevels(nxt, descendants, ancestryMap) ==
    IF nxt = <<>> THEN descendants
    ELSE LET r == PathLevel(nxt, 1, descendants, <<>>, ancestryMap)
         IN PathLevels(r.nxt, r.descendants, ancestryMap)

\* _findDescendantsInPath({x, y, descendants, ancestryMap}): the map afterwards
findDescendantsInPath(y, descendants, ancestryMap) ==
    PathLevels(<<y>>, descendants, ancestryMap)

RECURSIVE ChildrenOf(_, _)
\* next.push(...d) for every event of current that is a key of the map
ChildrenOf(cur, descendants) ==
    IF cur = <<>> THEN <<>>
    ELSE descendants[Head(cur)] \o ChildrenOf(Tail(cur), descendants)

RECURSIVE FlattenLevels(_, _, _)
FlattenLevels(cur, descendants, res) ==
    IF cur = <<>> THEN Uniq(res)
    ELSE LET nxt == Uniq(ChildrenOf(cur, descendants))
         IN FlattenLevels(nxt, descendants, res \o nxt)

\* fault: x itself listed among its descendants
flattenFromX(x, descendants) == FlattenLevels(<<x>>, descendants, <<x>>)

\* _flattenDescendants
flattenDescendants(x, descendants) == FlattenLevels(<<x>>, descendants, <<>>)

\* fault: x's creator not recorded as an endorser, and counted again when one
\* of its own events is found
hasEndorsementsCountingOwn(x, descendants, supermajority) ==
    1 + Cardinality({Creator(e) : e \in SeqToSet(flattenDescendants(x, descendants))}
                        \cap ElectorSet) >= supermajority

\* _hasSufficientEndorsements: x's creator and the electors that created an
\* event reached from x through the map number at least supermajority
\* (supermajority > 1 wherever it is called)
hasSufficientEndorsements(x, descendants, supermajority) ==
    Cardinality({Creator(x)} \cup
        ({Creator(e) : e \in SeqToSet(flattenDescendants(x, descendants))}
            \cap ElectorSet)) >= supermajority

RECURSIVE DiverseWalkFirstChild(_, _, _, _, _, _)
\* fault: the walk follows the first tree child of a forked event
DiverseWalkFirstChild(x, treeDescendant, supermajority, descendants, ancestryMap, tc) ==
    LET d == findDescendantsInPath(treeDescendant, descendants, ancestryMap)
    IN IF hasSufficientEndorsements(x, d, supermajority)
       THEN [event |-> treeDescendant, descendants |-> d]
       ELSE IF tc[treeDescendant] = <<>>
            THEN [event |-> NoEvent, descendants |-> d]
            ELSE DiverseWalkFirstChild(x, tc[treeDescendant][1], supermajority, d,
                                       ancestryMap, tc)

RECURSIVE DiverseWalk(_, _, _, _, _, _)
\* the while loop of _findDiversePedigreeMergeEvent
DiverseWalk(x, treeDescendant, supermajority, descendants, ancestryMap, tc) ==
    LET d == findDescendantsInPath(treeDescendant, descendants, ancestryMap)
    IN IF hasSufficientEndorsements(x, d, supermajority)
       THEN [event |-> treeDescendant, descendants |-> d]
       ELSE IF Len(tc[treeDescendant]) # 1
            THEN [event |-> NoEvent, descendants |-> d]
            ELSE DiverseWalk(x, tc[treeDescendant][1], supermajority, d, ancestryMap, tc)

\* fault: the search goes on from a forked x, along its first tree child
findDiversePedigreeOfFork(x, supermajority, ancestryMap, tc) ==
    IF supermajority = 1 THEN [event |-> x, descendants |-> EmptyMap]
    ELSE IF tc[x] = <<>> THEN [event |-> NoEvent, descendants |-> EmptyMap]
    ELSE DiverseWalk(x, tc[x][1], supermajority, EmptyMap, ancestryMap, tc)

\* _findDiversePedigreeMergeEvent: the event found (or NoEvent) and the
\* descendants map as the search leaves it; tc is _treeChildren
findDiversePedigreeMergeEvent(x, supermajority, ancestryMap, tc) ==
    IF supermajority = 1 THEN [event |-> x, descendants |-> EmptyMap]
    ELSE IF Len(tc[x]) # 1 THEN [event |-> NoEvent, descendants |-> EmptyMap]
    ELSE DiverseWalk(x, tc[x][1], supermajority, EmptyMap, ancestryMap, tc)

(***************************************************************************)
(* _findMergeEventProofCandidates.  A map keyed by elector is a record     *)
(* [ord, val]: ord lists the keys in insertion order, val maps an elector  *)
(* to its value (NoEvent: no such key).                                    *)
(***************************************************************************)
NoKeys == [ord |-> <<>>, val |-> [c \in ElectorSet |-> NoEvent]]

Put(map, elector, value) ==
    [ord |-> IF Includes(map.ord, elector) THEN map.ord ELSE Append(map.ord, elector),
     val |-> [map.val EXCEPT ![elector] = value]]

RECURSIVE Values(_, _)
\* _.values(map): the values in key order
Values(map, i) ==
    IF i > Len(map.ord) THEN <<>> ELSE <<map.val[map.ord[i]]>> \o Values(map, i + 1)

RECURSIVE FindXsFirstTail(_, _)
\* fault: the first tail taken as X whatever the number of tails
FindXsFirstTail(i, xBy) ==
    IF i > Len(electorsWithTails) THEN xBy
    ELSE FindXsFirstTail(i + 1,
            Put(xBy, electorsWithTails[i], ElectorTails(electorsWithTails[i])[1]))

RECURSIVE FindXs(_, _)
\* the loop "find merge event X candidate for each elector"
FindXs(i, xBy) ==
    IF i > Len(electorsWithTails) THEN xBy
    ELSE LET elector == electorsWithTails[i]
         IN FindXs(i + 1, IF Len(ElectorTails(elector)) # 1 THEN xBy
                           ELSE Put(xBy, elector, ElectorTails(elector)[1]))

RECURSIVE FindYsOneShort(_, _, _, _)
\* fault: Y is searched with one endorser less than the supermajority
FindYsOneShort(i, xBy, tc, acc) ==
    IF i > Len(xBy.ord) THEN acc
    ELSE LET elector == xBy.ord[i]
             x == xBy.val[elector]
             found == findDiversePedigreeMergeEvent(x, Supermajority - 1, {x}, tc)
         IN FindYsOneShort(i + 1, xBy, tc,
                IF found.event = NoEvent THEN acc
                ELSE [yBy |-> Put(acc.yBy, elector, found.event),
                      xDesc |-> [acc.xDesc EXCEPT ![elector] = found.descendants]])

RECURSIVE FindYs(_, _, _, _)
\* the loop "find merge event Y candidate for each elector"
FindYs(i, xBy, tc, acc) ==
    IF i > Len(xBy.ord) THEN acc
    ELSE LET elector == xBy.ord[i]
             x == xBy.val[elector]
             found == findDiversePedigreeMergeEvent(x, Supermajority, {x}, tc)
         IN FindYs(i + 1, xBy, tc,
                IF found.event = NoEvent THEN acc
                ELSE [yBy |-> Put(acc.yBy, elector, found.event),
                      xDesc |-> [acc.xDesc EXCEPT ![elector] = found.descendants]])

\* _findMergeEventProofCandidates: null, or xByElector, yByElector and the
\* _xDescendants map of every Y
findMergeEventProofCandidates ==
    LET tc == [e \in EventIds |-> TreeChildrenOf(e)]
        none == [isNull |-> TRUE, xBy |-> NoKeys, yBy |-> NoKeys,
                 xDesc |-> [c \in ElectorSet |-> EmptyMap]]
        xBy == FindXs(1, NoKeys)
        ys == FindYs(1, xBy, tc, [yBy |-> NoKeys, xDesc |-> none.xDesc])
    IN IF Len(electorsWithTails) < Supermajority THEN none
       ELSE IF Len(xBy.ord) < Supermajority THEN [none EXCEPT !.xBy = xBy]
       ELSE [isNull |-> FALSE, xBy |-> xBy, yBy |-> ys.yBy, xDesc |-> ys.xDesc]

(***************************************************************************)
(* _allEndorsedYs / _hasAncestors: the Y candidates among the ancestors of *)
(* a Y, in the order the search finds them.                                *)
(***************************************************************************)
RECURSIVE AncestorsLevel(_, _, _, _, _, _)
AncestorsLevel(cur, j, st, candidates, maps, nxt) ==
    IF j > Len(cur) THEN [st |-> st, nxt |-> nxt]
    ELSE LET parent == cur[j]
         IN IF parent \in st.checked
            THEN AncestorsLevel(cur, j + 1, st, candidates, maps, nxt)
            ELSE LET isNew == Includes(candidates, parent) /\ ~Includes(st.found, parent)
                     found == IF isNew THEN Append(st.found, parent) ELSE st.found
                     difference == {c \in SeqToSet(candidates) : ~Includes(found, c)}
                     viable == \E c \in difference : parent \notin maps[c]
                 IN AncestorsLevel(cur, j + 1,
                        [found |-> found, checked |-> st.checked \cup {parent}],
                        candidates, maps,
                        IF viable THEN nxt \o Parents(parent) ELSE nxt)

RECURSIVE AncestorsLevels(_, _, _, _)
AncestorsLevels(nxt, st, candidates, maps) ==
    IF nxt = <<>> THEN st.found
    ELSE LET r == AncestorsLevel(nxt, 1, st, candidates, maps, <<>>)
         IN AncestorsLevels(Uniq(r.nxt), r.st, candidates, maps)

\* _allEndorsedYs({event, allYs, yAncestryMaps})
allEndorsedYs(event, allYs, yAncestryMaps) ==
    AncestorsLevels(Parents(event), [found |-> <<>>, checked |-> {}], allYs, yAncestryMaps)

RECURSIVE VotesFor(_, _, _)
VotesFor(supported, i, v) ==
    IF i > Len(supported) THEN v
    ELSE VotesFor(supported, i + 1, Put(v, Creator(supported[i]), supported[i]))

\* fault: the Y is not added to the Ys it endorses ("always include self")
InitialVotesOfAncestors(cand) ==
    LET allYs == Values(cand.yBy, 1)
        yAncestryMaps == [y \in SeqToSet(allYs) |->
            buildAncestryMap(y) \cup Keys(cand.xDesc[Creator(y)])
                \cup {cand.xBy.val[Creator(y)]}]
    IN [e \in EventIds |->
          IF Includes(allYs, e)
          THEN VotesFor(allEndorsedYs(e, allYs, yAncestryMaps), 1, NoKeys)
          ELSE NoKeys]

\* "initialize all Y votes": y._votes for the Y of every elector
InitialVotes(cand) ==
    LET allYs == Values(cand.yBy, 1)
        yAncestryMaps == [y \in SeqToSet(allYs) |->
            buildAncestryMap(y) \cup Keys(cand.xDesc[Creator(y)])
                \cup {cand.xBy.val[Creator(y)]}]
    IN [e \in EventIds |->
          IF Includes(allYs, e)
          THEN VotesFor(Append(allEndorsedYs(e, allYs, yAncestryMaps), e), 1, NoKeys)
          ELSE NoKeys]

(***************************************************************************)
(* Votes.                                                                  *)
(***************************************************************************)
\* a value of _votes that is an event (neither missing nor `false`)
IsEvent(v) == v # NoEvent /\ v # FalseMark

\* fault: the first voting event met is kept, a later generation does not
\* replace it
useFirstVotingEvent(v, elector, votingEvent) ==
    IF Includes(v.ord, elector) THEN v ELSE Put(v, elector, votingEvent)

\* _useMostRecentVotingEvent
useMostRecentVotingEvent(v, elector, votingEvent) ==
    IF Includes(v.ord, elector)
    THEN LET existing == v.val[elector]
         IN IF existing = FalseMark THEN v
            ELSE IF generation[votingEvent] > generation[existing]
                 THEN Put(v, elector, votingEvent)
            ELSE IF generation[votingEvent] = generation[existing]
                    /\ votingEvent # existing
                 THEN Put(v, elector, FalseMark)
            ELSE v
    ELSE Put(v, elector, votingEvent)

RECURSIVE VotesLevel(_, _, _, _)
\* the votes after the first j events of a level
VotesLevel(cur, j, descendants, v) ==
    IF j = 0 THEN v
    ELSE LET before == VotesLevel(cur, j - 1, descendants, v)
             event == cur[j]
             creator == Creator(event)
         IN IF descendants[event] # <<>>
               /\ Includes(yByElector.ord, creator)
               /\ generation[event] >= generation[yByElector.val[creator]]
            THEN useMostRecentVotingEvent(before, creator, event)
            ELSE before

RECURSIVE VotesLevels(_, _)
VotesLevels(st, descendants) ==
    IF st.cur = <<>> THEN st.v
    ELSE VotesLevels([cur |-> Uniq(ChildrenOf(st.cur, descendants)),
                      v |-> VotesLevel(st.cur, Len(st.cur), descendants, st.v)],
                     descendants)

\* _updateToMostRecentVotes({y, descendants, votes}): votes afterwards
updateToMostRecentVotes(y, descendants, v) ==
    VotesLevels([cur |-> <<y>>, v |-> v], descendants)

RECURSIVE CollectVotes(_, _, _)
\* the loop over electorSet in _tallyBranches: extends the branch's
\* _yDescendants maps with the paths to event and updates event's votes
CollectVotes(i, event, st) ==
    IF i > Len(yByElector.ord) THEN st
    ELSE LET elector == yByElector.ord[i]
             d == findDescendantsInPath(event, st.yd[elector],
                                        Keys(xDescendants[elector]))
         IN CollectVotes(i + 1, event,
                [yd |-> [st.yd EXCEPT ![elector] = d],
                 v |-> updateToMostRecentVotes(yByElector.val[elector], d, st.v)])

(***************************************************************************)
(* _tally.                                                                 *)
(***************************************************************************)
\* _compareSupportSet, and the comparison made by _findSetInTally
compareSupportSet(set1, set2) ==
    Len(set1) = Len(set2) /\ SeqToSet(set1) \subseteq SeqToSet(set2)

\* the voting events of v that are counted: not byzantine, with _supporting
Counted(v) == {c \in SeqToSet(v.ord) : IsEvent(v.val[c]) /\ v.val[c] \in tallied}

\* fault: every counted vote is counted for set
TallyCountAll(v, set) == Cardinality(Counted(v))

\* the count of the tally entry for set (0: no such entry)
TallyCount(v, set) ==
    Cardinality({c \in Counted(v) : compareSupportSet(set, supporting[v.val[c]])})

RECURSIVE TallySetFrom(_, _, _)
\* the set instance of the tally entry for set: the _supporting of the
\* first counted vote that equals it
TallySetFrom(v, set, i) ==
    IF i > Len(v.ord) THEN set
    ELSE IF v.ord[i] \in Counted(v)
            /\ compareSupportSet(set, supporting[v.val[v.ord[i]]])
         THEN supporting[v.val[v.ord[i]]]
         ELSE TallySetFrom(v, set, i + 1)

RECURSIVE UnionPreCommitFrom(_, _, _)
UnionPreCommitFrom(v, i, union) ==
    IF i > Len(v.ord) THEN union
    ELSE LET r == v.val[v.ord[i]]
             better == IsEvent(r) /\ preCommit[r] # NoEvent
                       /\ Len(supporting[preCommit[r]]) > Len(union)
         IN UnionPreCommitFrom(v, i + 1, IF better THEN supporting[preCommit[r]] ELSE union)

\* fault: the precommits carried by the votes are not looked at
ownPreCommitSet(v, existingPrecommit) == supporting[existingPrecommit]

\* _findUnionPreCommitSet
findUnionPreCommitSet(v, existingPrecommit) ==
    UnionPreCommitFrom(v, 1, supporting[existingPrecommit])

RECURSIVE YsOf(_, _)
YsOf(v, i) ==
    IF i > Len(v.ord) THEN <<>>
    ELSE (IF IsEvent(v.val[v.ord[i]]) THEN <<yOf[v.val[v.ord[i]]]>> ELSE <<>>)
         \o YsOf(v, i + 1)

\* fault: the union keeps a supermajority of Y candidates, the last ones
YUnionOfLast(v) ==
    LET ys == Uniq(YsOf(v, 1))
    IN SubSeq(ys, IF Len(ys) > Supermajority
                  THEN Len(ys) - Supermajority + 1 ELSE 1, Len(ys))

\* "the union of all ancestral ys"
YUnion(v) == Uniq(YsOf(v, 1))

\* fault: a confirm point confirms whatever the event supports
confirmsUnmatched(matches, confirming, hasSupermajority) ==
    confirming /\ hasSupermajority

\* "consensus has been reached": local support matches the precommit, the
\* event is a confirm point and the support has a supermajority
confirms(matches, confirming, hasSupermajority) ==
    matches /\ confirming /\ hasSupermajority

\* fault: the confirm point of a rejected precommit keeps its _toConfirm
keepToConfirm(rejected, existingPreCommit) == toConfirm

\* _toConfirm of the events after "reject precommit immediately if local
\* support does not match"
clearToConfirm(rejected, existingPreCommit) ==
    IF rejected /\ confirmPoint[existingPreCommit] # NoEvent
    THEN [toConfirm EXCEPT ![confirmPoint[existingPreCommit]] = FalseMark]
    ELSE toConfirm

\* fault: a precommit is never rejected
keptAlways(existingPreCommit, matches, confirming) == existingPreCommit

\* existingPreCommit after the check of support: rejected (null) when local
\* support does not match, and at a confirm point that does not decide
keptPreCommit(existingPreCommit, matches, confirming) ==
    IF matches /\ ~confirming THEN existingPreCommit ELSE NoEvent

\* _tally({event}) with event._votes = v: what it returns (decision) and the
\* fields it leaves on the events
tally(event, v) ==
    LET creator == Creator(event)
        parentPreCommit ==
            IF treeParent[event] # NoEvent THEN preCommit[treeParent[event]] ELSE NoEvent
        \* e._supporting = tallyResult.set: equal sets share the first instance
        shared == [e \in EventIds |->
            IF \E c \in Counted(v) : v.val[c] = e
            THEN TallySetFrom(v, supporting[e], 1) ELSE supporting[e]]
        pcUnion == findUnionPreCommitSet(v, parentPreCommit)
        usePreCommit == parentPreCommit # NoEvent /\ TallyCount(v, pcUnion) > 0
        union == IF usePreCommit THEN pcUnion ELSE YUnion(v)
        inTally == TallyCount(v, union) > 0
        nextSet == IF inTally THEN TallySetFrom(v, union, 1) ELSE union
        own == v.val[creator]
        sameChoice == IsEvent(own) /\ own \in tallied /\ inTally
                      /\ compareSupportSet(supporting[own], nextSet)
        nextCount == TallyCount(v, union) + (IF sameChoice THEN 0 ELSE 1)
        hasSupermajority == nextCount >= Supermajority
        matches == parentPreCommit # NoEvent
                   /\ compareSupportSet(supporting[parentPreCommit], nextSet)
        rejected == parentPreCommit # NoEvent /\ ~matches
        decides == confirms(matches, IsEvent(toConfirm[event]), hasSupermajority)
        kept == keptPreCommit(parentPreCommit, matches, IsEvent(toConfirm[event]))
        creates == hasSupermajority /\ kept = NoEvent
        cp == IF creates
              THEN findDiversePedigreeMergeEvent(event, Supermajority,
                       buildAncestryMap(event), treeChildren).event
              ELSE NoEvent
        cleared == clearToConfirm(rejected, parentPreCommit)
    IN IF decides
       THEN [decision |-> shared[toConfirm[event]], decides |-> TRUE,
             supporting |-> shared, tallied |-> tallied, votes |-> v,
             preCommit |-> preCommit, confirmPoint |-> confirmPoint,
             toConfirm |-> toConfirm, count |-> nextCount]
       ELSE [decision |-> <<>>, decides |-> FALSE,
             supporting |-> [shared EXCEPT ![event] = nextSet],
             tallied |-> tallied \cup {event},
             votes |-> Put(v, creator, event),
             preCommit |-> IF creates THEN [preCommit EXCEPT ![event] = event]
                           ELSE IF kept # NoEvent THEN [preCommit EXCEPT ![event] = kept]
                           ELSE preCommit,
             confirmPoint |-> IF cp # NoEvent THEN [confirmPoint EXCEPT ![event] = cp]
                              ELSE confirmPoint,
             toConfirm |-> IF cp # NoEvent THEN [cleared EXCEPT ![cp] = event]
                           ELSE cleared,
             count |-> nextCount]

(***************************************************************************)
(* _getAncestorHashes and the result of findConsensus.                     *)
(***************************************************************************)
\* fault: the hashes kept in an array, not in a Set
AddAllListed(hashes, hs) == hashes \o hs

\* hashes.add(hash) for every hash of hs (a Set keeps insertion order)
AddAll(hashes, hs) ==
    hashes \o SelectSeq(Uniq(hs), LAMBDA h : ~Includes(hashes, h))

RECURSIVE HashesLevel(_, _, _, _)
HashesLevel(cur, j, st, nxt) ==
    IF j > Len(cur) THEN [st |-> st, nxt |-> nxt]
    ELSE LET event == cur[j]
         IN IF event \in st.descendants
            THEN HashesLevel(cur, j + 1, st, nxt)
            ELSE HashesLevel(cur, j + 1,
                    [descendants |-> st.descendants \cup {event},
                     hashes |-> AddAll(st.hashes, <<event>> \o ParentHash(event))],
                    nxt \o Parents(event))

RECURSIVE HashesLevels(_, _)
HashesLevels(nxt, st) ==
    IF nxt = <<>> THEN st
    ELSE LET r == HashesLevel(nxt, 1, st, <<>>) IN HashesLevels(r.nxt, r.st)

RECURSIVE HashesOfXs(_, _, _)
HashesOfXs(allXs, i, st) ==
    IF i > Len(allXs) THEN st.hashes
    ELSE HashesOfXs(allXs, i + 1, HashesLevels(<<allXs[i]>>, st))

\* _getAncestorHashes({allXs})
getAncestorHashes(allXs) == HashesOfXs(allXs, 1, [descendants |-> {}, hashes |-> <<>>])

\* fault: no proof substituted for the empty proof of a single elector
ProofOfFlattened(y, xBy, xDesc) ==
    flattenDescendants(xBy.val[Creator(y)], xDesc[Creator(y)])

\* the proof paired with y in _findMergeEventProof
ProofOf(y, xBy, xDesc) ==
    LET x == xBy.val[Creator(y)]
        proof == flattenDescendants(x, xDesc[Creator(y)])
    IN IF proof = <<>> /\ Supermajority = 1 THEN <<x>> ELSE proof

RECURSIVE ProofsOf(_, _, _, _)
ProofsOf(ys, i, xBy, xDesc) ==
    IF i > Len(ys) THEN <<>>
    ELSE ProofOf(ys[i], xBy, xDesc) \o ProofsOf(ys, i + 1, xBy, xDesc)

NullResult == [isNull |-> TRUE, ys |-> <<>>, eventHashes |-> <<>>,
               consensusProofHashes |-> <<>>]

\* history.events in the order of creation, no other call to compare with
Forward == [reverse |-> FALSE, first |-> NullResult]

\* what findConsensus returns when _findConsensusMergeEventProof returned ys;
\* ys (proof.consensus) is kept with the returned hashes
ResultOf(ys, xBy, xDesc) ==
    IF ys = <<>> THEN NullResult
    ELSE [isNull |-> FALSE,
          ys |-> ys,
          eventHashes |-> getAncestorHashes([i \in 1..Len(ys) |-> xBy.val[Creator(ys[i])]]),
          consensusProofHashes |-> Uniq(ProofsOf(ys, 1, xBy, xDesc))]

\* no decision was returned yet
NoDecision == [isNull |-> TRUE, ys |-> <<>>, eventHashes |-> <<>>,
               consensusProofHashes |-> <<>>, size |-> 0, yCandidates |-> <<>>]

\* the decision r that findConsensus returned on the present snapshot: what
\* it returned, the number of events of the snapshot and its Y candidates
DecisionOn(r) ==
    [isNull |-> FALSE, ys |-> r.ys, eventHashes |-> r.eventHashes,
     consensusProofHashes |-> r.consensusProofHashes,
     size |-> Len(events), yCandidates |-> Values(yByElector, 1)]

(***************************************************************************)
(* Growth of the history.  Merge events arrive one at a time (created      *)
(* locally or received through gossip) and are appended to the history in  *)
(* creation order, after their parents.                                    *)
(***************************************************************************)
RECURSIVE LastFrom(_, _)
LastFrom(creator, i) ==
    IF i = 0 THEN NoEvent
    ELSE IF Creator(i) = creator THEN i ELSE LastFrom(creator, i - 1)

\* the head of the creator's branch: its most recent merge event
LastOf(creator) == LastFrom(creator, Len(events))

RECURSIVE HeadsFrom(_, _, _)
\* the heads of the other creators (in creator order) that the tree parent
\* tp of a new event of `creator` does not descend from
HeadsFrom(o, creator, tp) ==
    IF o > Len(electors) /\ o > MaxCreators THEN <<>>
    ELSE (IF o # creator /\ LastOf(o) # NoEvent
             /\ (tp = NoEvent \/ LastOf(o) \notin buildAncestryMap(tp))
          THEN <<LastOf(o)>> ELSE <<>>) \o HeadsFrom(o + 1, creator, tp)

\* a merge event of creator on tree parent tp (NoEvent: a tail)
MergeEvent(creator, tp, merged, regular) ==
    [creator |-> creator,
     parents |-> (IF tp # NoEvent THEN <<tp>> ELSE <<>>) \o merged,
     treeHash |-> tp,
     regular |-> regular]

Regulars == Cardinality({e \in EventIds : events[e].regular})

\* the history may still grow: findConsensus is not running and has seen
\* every event; histories of more electors than creators stay short
CanGrow(bound) ==
    /\ pc = "idle"
    /\ ~fresh
    /\ Len(events) < (IF Len(electors) > RoundElectors THEN MaxQuiet ELSE bound)

\* gossip: creator c extends its branch, merging the heads of the other
\* creators that are new to it; the first event may list a regular event
AddEvent(c, regular) ==
    /\ CanGrow(MaxEvents)
    /\ replay = 0
    /\ Len(electors) # RoundElectors
    /\ regular => (Len(events) = 0 /\ Regulars < MaxRegular)
    /\ events' = Append(events,
          MergeEvent(c, LastOf(c), HeadsFrom(1, c, LastOf(c)), regular))
    /\ fresh' = TRUE
    /\ UNCHANGED <<cache, listing, electors, quiet, replay, lates, turn, forks, solos, pc, treeParent, treeChildren,
                   generation, xByElector, yByElector, xDescendants,
                   yDescendants, yOf, votes, supporting, tallied, preCommit,
                   confirmPoint, toConfirm, current, next, result, decided>>

\* gossip: creator 1 forks: a second tail (tp = NoEvent) or a second tree
\* child of one of its events
Fork(tp) ==
    /\ CanGrow(MaxEvents)
    /\ replay = 0
    /\ Len(electors) # RoundElectors
    /\ forks < MaxForks
    /\ LastOf(1) # NoEvent
    /\ tp # LastOf(1)
    /\ tp # NoEvent => Creator(tp) = 1
    /\ events' = Append(events,
          MergeEvent(1, tp, HeadsFrom(1, 1, tp), FALSE))
    /\ forks' = forks + 1
    /\ fresh' = TRUE
    /\ UNCHANGED <<cache, listing, electors, quiet, replay, lates, turn, solos, pc, treeParent, treeChildren,
                   generation, xByElector, yByElector, xDescendants,
                   yDescendants, yOf, votes, supporting, tallied, preCommit,
                   confirmPoint, toConfirm, current, next, result, decided>>

\* gossip: creator 1 publishes a malformed merge event: its treeHash names
\* its last event, which is not among its parents
AddMalformed ==
    /\ CanGrow(MaxEvents)
    /\ replay = 0
    /\ Len(electors) # RoundElectors
    /\ forks < MaxForks
    /\ LastOf(1) # NoEvent
    /\ events' = Append(events,
          [creator |-> 1, parents |-> HeadsFrom(1, 1, NoEvent),
           treeHash |-> LastOf(1), regular |-> FALSE])
    /\ forks' = forks + 1
    /\ fresh' = TRUE
    /\ UNCHANGED <<cache, listing, electors, quiet, replay, lates, turn, solos, pc, treeParent, treeChildren,
                   generation, xByElector, yByElector, xDescendants,
                   yDescendants, yOf, votes, supporting, tallied, preCommit,
                   confirmPoint, toConfirm, current, next, result, decided>>

\* a merge event as it is received: its creator, its parents (the tree
\* parent first) and its treeHash
Rec(creator, parents, treeHash) ==
    [creator |-> creator, parents |-> parents, treeHash |-> treeHash,
     regular |-> FALSE]

\* a history of four electors of which the last forks: the events 11 and 13
\* are both tree children of its event 9
ForkedHistory ==
    <<Rec(1, <<>>, NoEvent),
       Rec(4, <<1>>, NoEvent),
       Rec(3, <<1, 2>>, NoEvent),
       Rec(2, <<1, 3, 2>>, NoEvent),
       Rec(3, <<3, 4>>, 3),
       Rec(4, <<2, 4, 5>>, 2),
       Rec(3, <<5, 6>>, 5),
       Rec(2, <<4, 7, 6>>, 4),
       Rec(4, <<6, 8>>, 6),
       Rec(3, <<7, 8, 9>>, 7),
       Rec(4, <<9, 10>>, 9),
       Rec(1, <<1, 8, 10, 11>>, 1),
       Rec(4, <<9, 12, 10>>, 9),
       Rec(2, <<8, 12, 13>>, 8),
       Rec(1, <<12, 14, 13>>, 12),
       Rec(4, <<13, 15, 14>>, 13),
       Rec(3, <<10, 14, 16>>, 10)>>

\* a history of four electors of which the first is late and the last
\* forks: the events 8 and 9 are both tree children of the Y (event 7) of
\* elector 4, and both are merged by the Y (event 10) of elector 1
LateForkHistory ==
    <<Rec(1, <<>>, NoEvent),
       Rec(2, <<1>>, NoEvent),
       Rec(3, <<1, 2>>, NoEvent),
       Rec(4, <<1, 2, 3>>, NoEvent),
       Rec(2, <<2, 4>>, 2),
       Rec(3, <<3, 5>>, 3),
       Rec(4, <<4, 6>>, 4),
       Rec(4, <<7>>, 7),
       Rec(4, <<7, 6>>, 7),
       Rec(1, <<1, 8, 9>>, 1)>>

\* a history of four correct electors whose tails are unrelated: the
\* electors 1 and 2 first see only each other's Y (events 9 and 12), the
\* electors 3 and 4 likewise (events 11 and 13); event 16 is the first to
\* merge both sides
SplitHistory ==
    <<Rec(1, <<>>, NoEvent),
       Rec(2, <<>>, NoEvent),
       Rec(3, <<>>, NoEvent),
       Rec(4, <<>>, NoEvent),
       Rec(1, <<1, 3, 4>>, 1),
       Rec(3, <<3, 1>>, 3),
       Rec(2, <<2, 6>>, 2),
       Rec(4, <<4, 5>>, 4),
       Rec(1, <<5, 7>>, 5),
       Rec(3, <<6, 7>>, 6),
       Rec(3, <<10, 8>>, 10),
       Rec(2, <<7, 9, 10>>, 7),
       Rec(4, <<8, 11>>, 8),
       Rec(1, <<9, 12>>, 9),
       Rec(3, <<11, 13>>, 11),
       Rec(1, <<14, 15>>, 14),
       Rec(2, <<12, 16>>, 12),
       Rec(3, <<15, 17>>, 15),
       Rec(4, <<13, 18>>, 13),
       Rec(1, <<16, 19>>, 16),
       Rec(3, <<18, 20>>, 18)>>

\* the split history up to event 15, after which elector 4 forks: the
\* events 16 and 17 are both tree children of its Y (event 13), and both
\* are merged by event 18 of elector 1
SplitForkHistory ==
    SubSeq(SplitHistory, 1, 15) \o
       <<Rec(4, <<13>>, 13),
          Rec(4, <<13, 15>>, 13),
          Rec(1, <<14, 16, 17>>, 14)>>

\* a history of four electors of which the first forks: the events 8 and 10
\* are both tree children of its event 5
ListedHistory ==
    <<Rec(1, <<>>, NoEvent),
       Rec(2, <<1>>, NoEvent),
       Rec(4, <<1, 2>>, NoEvent),
       Rec(3, <<1, 2, 3>>, NoEvent),
       Rec(1, <<1, 2, 4, 3>>, 1),
       Rec(4, <<3, 5, 2, 4>>, 3),
       Rec(2, <<2, 5, 4, 6>>, 2),
       Rec(1, <<5, 7, 4, 6>>, 5),
       Rec(3, <<4, 1, 7, 6>>, 4),
       Rec(1, <<5, 7, 9, 6>>, 5),
       Rec(4, <<6, 10, 7, 9>>, 6),
       Rec(1, <<8, 7, 9, 11>>, 8),
       Rec(2, <<7, 12, 9, 11>>, 7),
       Rec(4, <<11, 12, 13, 9>>, 11)>>

\* the recorded histories that gossip may deliver event by event
Recorded == <<ForkedHistory, LateForkHistory, SplitHistory, SplitForkHistory>>

\* the recorded histories of Spec and the one of RelistSpec, which gives
\* every history to findConsensus in both listing orders
Listings == Recorded \o <<ListedHistory>>

\* gossip: the next event of the recorded history arrives
Deliver ==
    /\ replay # 0
    /\ CanGrow(Len(Listings[replay]))
    /\ \E e \in {Listings[replay][Len(events) + 1]} :
          /\ events' = Append(events, e)
          /\ forks' = IF LastOf(e.creator) # e.treeHash THEN forks + 1 ELSE forks
    /\ fresh' = TRUE
    /\ UNCHANGED <<cache, listing, electors, quiet, lates, replay, turn, solos, pc, treeParent,
                   treeChildren, generation, xByElector, yByElector,
                   xDescendants, yDescendants, yOf, votes, supporting,
                   tallied, preCommit, confirmPoint, toConfirm, current, next,
                   result, decided>>

\* rounds: the elector after t; the quiet elector has its turn only while it
\* has no event
TurnAfter(t) ==
    LET n == (t % RoundElectors) + 1
    IN IF n = quiet /\ LastOf(quiet) # NoEvent THEN (n % RoundElectors) + 1 ELSE n

\* rounds: the elector whose turn it is extends its branch, merging the
\* heads of all other electors
Round ==
    /\ CanGrow(MaxRoundEvents)
    /\ Len(electors) = RoundElectors
    /\ replay = 0
    /\ events' = Append(events,
          MergeEvent(turn, LastOf(turn), HeadsFrom(1, turn, LastOf(turn)), FALSE))
    /\ turn' = TurnAfter(turn)
    /\ fresh' = TRUE
    /\ UNCHANGED <<cache, listing, electors, quiet, replay, lates, forks, solos, pc, treeParent, treeChildren,
                   generation, xByElector, yByElector, xDescendants,
                   yDescendants, yOf, votes, supporting, tallied, preCommit,
                   confirmPoint, toConfirm, current, next, result, decided>>

\* rounds: the elector whose turn it is lags: it extends its branch merging
\* only the heads it has received, those older than the last two events
Late ==
    /\ CanGrow(MaxRoundEvents)
    /\ Len(electors) = RoundElectors
    /\ replay = 0
    /\ quiet = NoEvent
    /\ forks = 0
    /\ solos = 0
    /\ lates < MaxLate
    /\ LastOf(turn) # NoEvent
    /\ events' = Append(events,
          MergeEvent(turn, LastOf(turn),
                     SelectSeq(HeadsFrom(1, turn, LastOf(turn)),
                               LAMBDA h : h < Len(events) - 1), FALSE))
    /\ turn' = TurnAfter(turn)
    /\ lates' = lates + 1
    /\ fresh' = TRUE
    /\ UNCHANGED <<cache, listing, electors, quiet, replay, forks, solos, pc, treeParent, treeChildren,
                   generation, xByElector, yByElector, xDescendants,
                   yDescendants, yOf, votes, supporting, tallied, preCommit,
                   confirmPoint, toConfirm, current, next, result, decided>>

\* rounds: right after its turn the last elector (byzantine) extends its
\* branch again without merging anything
Solo ==
    /\ CanGrow(MaxRoundEvents)
    /\ Len(electors) = RoundElectors
    /\ replay = 0
    /\ quiet = NoEvent
    /\ lates = 0
    /\ turn = 1
    /\ solos < MaxSolos
    /\ LastOf(RoundElectors) # NoEvent
    /\ events' = Append(events,
          MergeEvent(RoundElectors, LastOf(RoundElectors), <<>>, FALSE))
    /\ solos' = solos + 1
    /\ fresh' = TRUE
    /\ UNCHANGED <<cache, listing, electors, quiet, replay, lates, turn, forks, pc, treeParent, treeChildren,
                   generation, xByElector, yByElector, xDescendants,
                   yDescendants, yOf, votes, supporting, tallied, preCommit,
                   confirmPoint, toConfirm, current, next, result, decided>>

\* rounds: at its turn the last elector (byzantine) forks instead: a second
\* tail, or a second tree child of one of its events, merging all heads
ForkRound(tp) ==
    /\ CanGrow(MaxRoundEvents)
    /\ Len(electors) = RoundElectors
    /\ replay = 0
    /\ quiet = NoEvent
    /\ lates = 0
    /\ turn = RoundElectors
    /\ forks < MaxForks
    /\ LastOf(RoundElectors) # NoEvent
    /\ tp # LastOf(RoundElectors)
    /\ tp # NoEvent => Creator(tp) = RoundElectors
    /\ events' = Append(events,
          MergeEvent(RoundElectors, tp, HeadsFrom(1, RoundElectors, tp), FALSE))
    /\ turn' = 1
    /\ forks' = forks + 1
    /\ fresh' = TRUE
    /\ UNCHANGED <<cache, listing, electors, quiet, replay, lates, solos, pc, treeParent, treeChildren,
                   generation, xByElector, yByElector, xDescendants,
                   yDescendants, yOf, votes, supporting, tallied, preCommit,
                   confirmPoint, toConfirm, current, next, result, decided>>

\* rounds: at any time the last elector (byzantine) publishes a second tail
\* that merges nothing of the snapshot
ForkApart ==
    /\ CanGrow(MaxRoundEvents)
    /\ Len(electors) = RoundElectors
    /\ replay = 0
    /\ quiet = NoEvent
    /\ lates = 0
    /\ forks < MaxForks
    /\ LastOf(RoundElectors) # NoEvent
    /\ events' = Append(events, MergeEvent(RoundElectors, NoEvent, <<>>, FALSE))
    /\ forks' = forks + 1
    /\ fresh' = TRUE
    /\ UNCHANGED <<cache, listing, electors, quiet, replay, lates, turn, solos, pc, treeParent, treeChildren,
                   generation, xByElector, yByElector, xDescendants,
                   yDescendants, yOf, votes, supporting, tallied, preCommit,
                   confirmPoint, toConfirm, current, next, result, decided>>

(***************************************************************************)
(* findConsensus.  Start is everything up to the first pass of the loop of *)
(* _tallyBranches; TallyStep is one iteration of its inner for loop (the   *)
(* while loop starts a new pass when `current` is used up); Discard drops  *)
(* the history object and its per-event fields after the call returned.    *)
(***************************************************************************)
NoField == [e \in EventIds |-> NoEvent]

NoVotes == [e \in EventIds |-> NoKeys]

NoMaps == [c \in ElectorSet |-> EmptyMap]

\* findConsensus has not been called and there is no history
ConsensusInit ==
    /\ events = <<>>
    /\ electors \in {[i \in 1..n |-> i] : n \in ElectorCounts}
    /\ quiet \in (IF Len(electors) = RoundElectors THEN {NoEvent, QuietElector}
                  ELSE {NoEvent})
    /\ turn = 1
    /\ forks = 0
    /\ solos = 0
    /\ lates = 0
    /\ replay \in (IF Len(electors) = RoundElectors /\ quiet = NoEvent
                   THEN 0..Len(Recorded) ELSE {0})
    /\ fresh = FALSE
    /\ listing = Forward
    /\ pc = "idle"
    /\ treeParent = <<>>
    /\ treeChildren = <<>>
    /\ generation = <<>>
    /\ xByElector = NoKeys
    /\ yByElector = NoKeys
    /\ xDescendants = NoMaps
    /\ yDescendants = [c \in ElectorSet |-> NoMaps]
    /\ yOf = <<>>
    /\ votes = <<>>
    /\ supporting = <<>>
    /\ tallied = {}
    /\ preCommit = <<>>
    /\ confirmPoint = <<>>
    /\ toConfirm = <<>>
    /\ current = <<>>
    /\ next = <<>>
    /\ result = NullResult
    /\ decided = NoDecision

(***************************************************************************)
(* The event cache of one ledger node (src/lib/cache/events.js).  A        *)
(* handler computes its arguments, sends one command or one MULTI          *)
(* transaction over the connection `cache.client` and awaits the reply.    *)
(* Redis executes what a connection sends in the order it was sent, a      *)
(* transaction atomically, and replies in that order.                      *)
(***************************************************************************)
MaxHashes == 3
MaxGeneration == 10
MaxCalls == 4
MaxInFlight == 2
MaxAsked == 2
MaxCached == 2

\* a key that is not set (the nil reply, `null` in JavaScript)
Nil == "nil"

\* the value of a handler that returns nothing
Undefined == "undefined"

\* the event hashes of the ledger node
CacheHashes == {"zQm" \o ToString(i) : i \in 1..MaxHashes}

\* the event hashes whose generation is cached or asked for
CachedHashes == {"zQm" \o ToString(i) : i \in 1..MaxCached}

\* the generations of the events: one digit and two digits
Generations == {0, MaxGeneration}

\* redis stores the decimal string of a number (the sequence of its digits)
RECURSIVE ToDecimal(_)
ToDecimal(n) ==
    IF n < 10 THEN <<n>> ELSE Append(ToDecimal(n \div 10), n % 10)

RECURSIVE parseInt(_)
parseInt(s) ==
    IF Len(s) = 1 THEN s[1]
    ELSE 10 * parseInt(SubSeq(s, 1, Len(s) - 1)) + s[Len(s)]

\* the keys of the ledger node: the generation of an event
\* (headGeneration), the childless events, the local childless events, the
\* outstanding merge events and the head of the local branch.  The
\* counters per second, the gossip copies of the events (they expire) and
\* the published messages are left out: no handler reads them back.
EmptyStore ==
    [headGeneration |-> [h \in CacheHashes |-> Nil],
     childless |-> {},
     localChildless |-> {},
     outstandingMerge |-> {},
     head |-> Nil]

\* sent: what the connection has not executed yet; replies: what the
\* handlers have not been given yet; last: what the handler that ended
\* last has returned; removed: the hashes that a completed
\* addLocalMergeEvent has removed and that were not added since; again:
\* the hashes that were added after such a removal
EmptyCache ==
    [store |-> EmptyStore, sent |-> <<>>, replies |-> <<>>,
     last |-> [op |-> "none"], calls |-> 0, removed |-> {}, again |-> {}]

\* a handler may be called: the calls are bounded
CanCall ==
    /\ cache.calls < MaxCalls
    /\ Len(cache.sent) + Len(cache.replies) < MaxInFlight

Send(command) ==
    cache' = [cache EXCEPT !.sent = Append(@, command), !.calls = @ + 1]

\* the sequences of at most n event hashes, without the empty one (mget
\* needs a key)
Asked(n) == UNION {[1..k -> CachedHashes] : k \in 1..n}

\* --- the handlers up to their await ---

\* setGenerations: a Map of eventHash => generation
SetGenerations ==
    /\ CanCall
    /\ \E keys \in SUBSET CachedHashes : \E generationMap \in [keys -> Generations] :
          IF keys = {}
          THEN cache' = [cache EXCEPT
                            !.last = [op |-> "setGenerations",
                                      value |-> Undefined],
                            !.calls = @ + 1]
          ELSE Send([op |-> "setGenerations", generationMap |-> generationMap])
    /\ UNCHANGED consensusVars

GetGenerations ==
    /\ CanCall
    /\ \E eventHashes \in Asked(MaxAsked) :
          Send([op |-> "getGenerations", eventHashes |-> eventHashes])
    /\ UNCHANGED consensusVars

AddLocalRegularEvent ==
    /\ CanCall
    /\ \E eventHash \in CacheHashes :
          Send([op |-> "addLocalRegularEvent", eventHash |-> eventHash])
    /\ UNCHANGED consensusVars

\* parentHash.filter(h => h !== treeHash)
parentHashes(parentHash, treeHash) == parentHash \ {treeHash}

\* the parents of a merge event are other events: its tree parent and at
\* least one event that it merges
AddLocalMergeEvent ==
    /\ CanCall
    /\ \E eventHash \in CacheHashes, g \in Generations :
       \E treeHash \in CacheHashes \ {eventHash} :
       \E merged \in (SUBSET (CacheHashes \ {eventHash, treeHash})) \ {{}} :
          Send([op |-> "addLocalMergeEvent", eventHash |-> eventHash,
                generation |-> g,
                parentHashes |->
                    parentHashes({treeHash} \cup merged, treeHash)])
    /\ UNCHANGED consensusVars

GetMergeStatus ==
    /\ CanCall
    /\ Send([op |-> "getMergeStatus"])
    /\ UNCHANGED consensusVars

\* --- redis ---

\* fault: the local set keeps the parents
mergeTxnChildlessOnly(store, command) ==
    [store EXCEPT
        !.childless = @ \ command.parentHashes,
        !.outstandingMerge = @ \cup {command.eventHash},
        !.head = <<command.eventHash, ToDecimal(command.generation)>>]

\* the transaction of addLocalMergeEvent
mergeTxn(store, command) ==
    [store EXCEPT
        !.childless = @ \ command.parentHashes,
        !.localChildless = @ \ command.parentHashes,
        !.outstandingMerge = @ \cup {command.eventHash},
        !.head = <<command.eventHash, ToDecimal(command.generation)>>]

\* the store after the command
Executed(store, command) ==
    CASE command.op = "setGenerations" ->
            [store EXCEPT !.headGeneration =
                [h \in CacheHashes |->
                    IF h \in DOMAIN command.generationMap
                    THEN ToDecimal(command.generationMap[h]) ELSE @[h]]]
      [] command.op = "addLocalRegularEvent" ->
            [store EXCEPT !.childless = @ \cup {command.eventHash},
                          !.localChildless = @ \cup {command.eventHash}]
      [] command.op = "addLocalMergeEvent" -> mergeTxn(store, command)
      [] OTHER -> store

\* the reply to the command, with what the store held
Reply(store, command) ==
    CASE command.op = "getGenerations" ->
            [op |-> command.op, eventHashes |-> command.eventHashes,
             generations |-> [i \in 1..Len(command.eventHashes) |->
                                store.headGeneration[command.eventHashes[i]]],
             headGeneration |-> store.headGeneration]
      [] command.op = "getMergeStatus" ->
            [op |-> command.op,
             peerChildlessHashes |-> store.childless \ store.localChildless,
             localChildlessHashes |-> store.localChildless,
             childless |-> store.childless,
             removed |-> cache.removed]
      [] command.op = "addLocalMergeEvent" ->
            [op |-> command.op, parentHashes |-> command.parentHashes]
      [] OTHER -> [op |-> command.op]

\* an added hash is no longer one that a merge event has removed
Readded(replies, command) ==
    [i \in 1..Len(replies) |->
        IF command.op = "addLocalRegularEvent"
              /\ replies[i].op = "addLocalMergeEvent"
        THEN [replies[i] EXCEPT !.parentHashes = @ \ {command.eventHash}]
        ELSE replies[i]]

Exec ==
    /\ cache.sent # <<>>
    /\ \E command \in {Head(cache.sent)} :
          cache' = [cache EXCEPT
              !.sent = Tail(@),
              !.store = Executed(@, command),
              !.replies = Append(Readded(@, command),
                                 Reply(cache.store, command)),
              !.removed = IF command.op = "addLocalRegularEvent"
                          THEN @ \ {command.eventHash} ELSE @,
              !.again = IF command.op = "addLocalRegularEvent"
                        THEN @ \cup ({command.eventHash} \cap cache.removed)
                        ELSE @]
    /\ UNCHANGED consensusVars

\* the key of a generation expires ('EX', 36000)
Expire ==
    /\ \E h \in CacheHashes :
          /\ cache.store.headGeneration[h] # Nil
          /\ cache' = [cache EXCEPT !.store.headGeneration[h] = Nil]
    /\ UNCHANGED consensusVars

\* --- the handlers after their await ---

\* `for(const eventHash in eventHashes)`: the enumerable property names of
\* the array, "0", "1", ...
PropertyNames(eventHashes) == [i \in 1..Len(eventHashes) |-> ToString(i - 1)]

\* generationMap.set(key, value): a new key is added at the end
MapSet(map, key, value) ==
    IF \E i \in 1..Len(map) : map[i][1] = key
    THEN [i \in 1..Len(map) |->
            IF map[i][1] = key THEN <<key, value>> ELSE map[i]]
    ELSE Append(map, <<key, value>>)

\* the loop of getGenerations over the first n names
RECURSIVE GenerationsLoop(_, _, _)
GenerationsLoop(names, generations, n) ==
    IF n = 0 THEN [generationMap |-> <<>>, notFound |-> <<>>]
    ELSE LET done == GenerationsLoop(names, generations, n - 1)
         IN  IF generations[n] = Nil
             THEN [generationMap |-> MapSet(done.generationMap, names[n], Nil),
                   notFound |-> Append(done.notFound, names[n])]
             ELSE [generationMap |-> MapSet(done.generationMap, names[n],
                                            parseInt(generations[n])),
                   notFound |-> done.notFound]

getGenerations(reply) ==
    GenerationsLoop(PropertyNames(reply.eventHashes), reply.generations,
                    Len(reply.eventHashes))

\* what the handler returns, next to what it was called with and what the
\* store held
Returned(reply) ==
    CASE reply.op = "getGenerations" ->
            [op |-> reply.op, eventHashes |-> reply.eventHashes,
             headGeneration |-> reply.headGeneration,
             value |-> getGenerations(reply)]
      [] reply.op = "getMergeStatus" ->
            [op |-> reply.op, childless |-> reply.childless,
             removed |-> reply.removed,
             value |-> [peerChildlessHashes |-> reply.peerChildlessHashes,
                        localChildlessHashes |-> reply.localChildlessHashes]]
      [] OTHER -> [op |-> reply.op]

Return ==
    /\ cache.replies # <<>>
    /\ \E reply \in {Head(cache.replies)} :
          cache' = [cache EXCEPT
              !.replies = Tail(@),
              !.last = Returned(reply),
              !.removed = IF reply.op = "addLocalMergeEvent"
                          THEN @ \cup reply.parentHashes ELSE @]
    /\ UNCHANGED consensusVars

\* the consensus state of a ledger node that has no events yet
IdleNode ==
    /\ ConsensusInit
    /\ Len(electors) = RoundElectors
    /\ quiet = NoEvent
    /\ replay = 0

\* the generations of the events are cached and looked up
GenerationsInit ==
    /\ IdleNode
    /\ cache = EmptyCache

GenerationsNext ==
    \/ SetGenerations
    \/ GetGenerations
    \/ Expire
    \/ Exec
    \/ Return

GenerationsSpec == GenerationsInit /\ [][GenerationsNext]_vars

\* local events are added and merged; the childless events of the peers
\* were put into the childless set by the worker that writes their events
ChildlessInit ==
    /\ IdleNode
    /\ \E peers \in SUBSET CacheHashes :
          cache = [EmptyCache EXCEPT !.store.childless = peers]

ChildlessNext ==
    \/ AddLocalRegularEvent
    \/ AddLocalMergeEvent
    \/ GetMergeStatus
    \/ Exec
    \/ Return

ChildlessSpec == ChildlessInit /\ [][ChildlessNext]_vars

Init ==
    /\ ConsensusInit
    /\ cache = EmptyCache

Start ==
    /\ pc = "idle"
    /\ fresh
    /\ fresh' = FALSE
    /\ \E cand \in {findMergeEventProofCandidates} :
       \E allYs \in {Values(cand.yBy, 1)} :
       \E tallies \in {~cand.isNull /\ Len(cand.yBy.ord) >= Supermajority
                       /\ Len(electors) # 1} :
          /\ treeParent' = [e \in EventIds |-> TreeParentOf(e)]
          /\ treeChildren' = [e \in EventIds |-> TreeChildrenOf(e)]
          /\ generation' = BranchGenerations(Len(electorsWithTails))
          /\ xByElector' = cand.xBy
          /\ yByElector' = cand.yBy
          /\ xDescendants' = cand.xDesc
          /\ yDescendants' = [c \in ElectorSet |-> NoMaps]
          /\ yOf' = [e \in EventIds |->
                       IF tallies /\ Includes(allYs, e) THEN e ELSE NoEvent]
          /\ votes' = IF tallies THEN InitialVotes(cand) ELSE NoVotes
          /\ supporting' = [e \in EventIds |-> <<>>]
          /\ tallied' = {}
          /\ preCommit' = NoField
          /\ confirmPoint' = NoField
          /\ toConfirm' = NoField
          /\ current' = <<>>
          /\ next' = IF tallies THEN allYs ELSE <<>>
          /\ pc' = IF tallies THEN "tally" ELSE "done"
          /\ result' = IF ~cand.isNull /\ Len(cand.yBy.ord) >= Supermajority
                          /\ Len(electors) = 1
                       THEN ResultOf(allYs, cand.xBy, cand.xDesc)
                       ELSE NullResult
    /\ UNCHANGED <<cache, listing, events, electors, quiet, replay, lates, turn, forks, solos, decided>>

\* the event that the inner loop of _tallyBranches visits next, and what
\* stays of `current` and `next` (a new pass starts when current is used up)
Visiting == IF current = <<>> THEN next ELSE current

Pushed == IF current = <<>> THEN <<>> ELSE next

\* the first part of an iteration: event._y, event._votes and the branch's
\* _yDescendants after the loop over electorSet
Collected(event) ==
    LET parent == treeParent[event]
        inherited == IF votes[event].ord # <<>> THEN votes[event]
                     ELSE IF parent # NoEvent THEN votes[parent]
                     ELSE NoKeys
    IN IF event \in tallied
       THEN [yd |-> yDescendants[Creator(event)], v |-> votes[event]]
       ELSE CollectVotes(1, event, [yd |-> yDescendants[Creator(event)], v |-> inherited])

\* fault: only the votes for the Y candidates themselves are waited for
OutstandingYs(event, v) ==
    /\ event \notin tallied
    /\ \E i \in 1..Len(v.ord) :
          /\ v.val[v.ord[i]] = yByElector.val[v.ord[i]]
          /\ v.val[v.ord[i]] # event
          /\ v.val[v.ord[i]] \notin tallied

\* "some votes are still outstanding other than ourselves"
Outstanding(event, v) ==
    /\ event \notin tallied
    /\ \E i \in 1..Len(v.ord) :
          /\ IsEvent(v.val[v.ord[i]])
          /\ v.val[v.ord[i]] # event
          /\ v.val[v.ord[i]] \notin tallied

TallyStep ==
    /\ pc = "tally"
    /\ IF Visiting = <<>>
       THEN /\ pc' = "done"
            /\ result' = NullResult
            /\ current' = <<>>
            /\ next' = <<>>
            /\ UNCHANGED <<yDescendants, yOf, votes, supporting, tallied,
                           preCommit, confirmPoint, toConfirm>>
       ELSE \E event \in {Head(Visiting)} :
            \E got \in {Collected(event)} :
               /\ yOf' = [yOf EXCEPT ![event] =
                            IF treeParent[event] # NoEvent
                               /\ yOf[treeParent[event]] # NoEvent
                            THEN yOf[treeParent[event]] ELSE @]
               /\ yDescendants' = [yDescendants EXCEPT ![Creator(event)] = got.yd]
               /\ IF Outstanding(event, got.v)
                  THEN /\ votes' = [votes EXCEPT ![event] = got.v]
                       /\ current' = Tail(Visiting)
                       /\ next' = Append(Pushed, event)
                       /\ UNCHANGED <<supporting, tallied, preCommit,
                                      confirmPoint, toConfirm, pc, result>>
                  ELSE \E t \in {tally(event, got.v)} :
                       /\ votes' = [votes EXCEPT ![event] = t.votes]
                       /\ supporting' = t.supporting
                       /\ tallied' = t.tallied
                       /\ preCommit' = t.preCommit
                       /\ confirmPoint' = t.confirmPoint
                       /\ toConfirm' = t.toConfirm
                       /\ IF t.decides
                          THEN /\ pc' = "done"
                               /\ result' = ResultOf(t.decision, xByElector,
                                                     xDescendants)
                               /\ current' = <<>>
                               /\ next' = <<>>
                          ELSE /\ current' = Tail(Visiting)
                               /\ next' = Pushed \o treeChildren[event]
                               /\ UNCHANGED <<pc, result>>
    /\ UNCHANGED <<cache, listing, events, electors, quiet, replay, lates, turn, forks, solos, fresh, treeParent,
                   treeChildren, generation, xByElector, yByElector,
                   xDescendants, decided>>

Discard ==
    /\ pc = "done"
    /\ pc' = "idle"
    /\ decided' = IF decided.isNull /\ ~result.isNull THEN DecisionOn(result)
                   ELSE decided
    /\ result' = NullResult
    /\ treeParent' = <<>>
    /\ treeChildren' = <<>>
    /\ generation' = <<>>
    /\ xByElector' = NoKeys
    /\ yByElector' = NoKeys
    /\ xDescendants' = [c \in ElectorSet |-> <<>>]
    /\ yDescendants' = [c \in ElectorSet |-> [d \in ElectorSet |-> <<>>]]
    /\ yOf' = <<>>
    /\ votes' = <<>>
    /\ supporting' = <<>>
    /\ tallied' = {}
    /\ preCommit' = <<>>
    /\ confirmPoint' = <<>>
    /\ toConfirm' = <<>>
    /\ current' = <<>>
    /\ next' = <<>>
    /\ listing' = Forward
    /\ UNCHANGED <<cache, events, electors, quiet, replay, lates, turn, forks,
                   solos, fresh>>

Next ==
    \/ \E c \in 1..MaxCreators, regular \in BOOLEAN : AddEvent(c, regular)
    \/ \E tp \in {NoEvent} \cup EventIds : Fork(tp)
    \/ AddMalformed
    \/ Deliver
    \/ Round
    \/ Late
    \/ Solo
    \/ \E tp \in {NoEvent} \cup EventIds : ForkRound(tp)
    \/ ForkApart
    \/ Start
    \/ TallyStep
    \/ Discard

Spec == Init /\ [][Next]_vars

\* findConsensus runs to its end once called (a synchronous loop), it is
\* called again after every new event, and the electors of a round keep
\* extending their branches.  The three conditions after WF_vars(Discard)
\* are the weak fairness of TallyStep, Start and Round with ENABLED written
\* out as the state predicate that guards the action.
FairSpec ==
    /\ Spec
    /\ WF_vars(Discard)
    /\ ([]<>(pc # "tally") \/ []<><<TallyStep>>_vars)
    /\ ([]<>(~(pc = "idle" /\ fresh)) \/ []<><<Start>>_vars)
    /\ ([]<>(~(CanGrow(MaxRoundEvents) /\ Len(electors) = RoundElectors))
           \/ []<><<Round>>_vars)

(***************************************************************************)
(* findConsensus called twice on one history: with history.events in the   *)
(* order of creation, and then with the same events in the opposite order. *)
(***************************************************************************)
\* the first call has returned; the caller keeps what it returned and calls
\* findConsensus again with history.events reversed
Relist ==
    /\ pc = "done"
    /\ ~listing.reverse
    /\ listing' = [reverse |-> TRUE, first |-> result]
    /\ fresh' = TRUE
    /\ pc' = "idle"
    /\ result' = NullResult
    /\ treeParent' = <<>>
    /\ treeChildren' = <<>>
    /\ generation' = <<>>
    /\ xByElector' = NoKeys
    /\ yByElector' = NoKeys
    /\ xDescendants' = [c \in ElectorSet |-> <<>>]
    /\ yDescendants' = [c \in ElectorSet |-> [d \in ElectorSet |-> <<>>]]
    /\ yOf' = <<>>
    /\ votes' = <<>>
    /\ supporting' = <<>>
    /\ tallied' = {}
    /\ preCommit' = <<>>
    /\ confirmPoint' = <<>>
    /\ toConfirm' = <<>>
    /\ current' = <<>>
    /\ next' = <<>>
    /\ UNCHANGED <<cache, events, electors, quiet, replay, lates, turn, forks,
                   solos, decided>>

RelistInit ==
    /\ events = <<>>
    /\ electors = [i \in 1..RoundElectors |-> i]
    /\ quiet = NoEvent
    /\ turn = 1
    /\ forks = 0
    /\ solos = 0
    /\ lates = 0
    /\ replay \in 1..Len(Listings)
    /\ fresh = FALSE
    /\ listing = Forward
    /\ pc = "idle"
    /\ treeParent = <<>>
    /\ treeChildren = <<>>
    /\ generation = <<>>
    /\ xByElector = NoKeys
    /\ yByElector = NoKeys
    /\ xDescendants = NoMaps
    /\ yDescendants = [c \in ElectorSet |-> NoMaps]
    /\ yOf = <<>>
    /\ votes = <<>>
    /\ supporting = <<>>
    /\ tallied = {}
    /\ preCommit = <<>>
    /\ confirmPoint = <<>>
    /\ toConfirm = <<>>
    /\ current = <<>>
    /\ next = <<>>
    /\ result = NullResult
    /\ decided = NoDecision
    /\ cache = EmptyCache

RelistNext ==
    \/ Deliver
    \/ Start
    \/ TallyStep
    \/ Relist
    \/ Discard

RelistSpec == RelistInit /\ [][RelistNext]_vars

(***************************************************************************)
(* Claims.                                                                 *)
(***************************************************************************)
\* a decision was returned by the call that just ended
Decision == pc = "done" /\ ~result.isNull

SameSet(a, b) == SeqToSet(a) = SeqToSet(b)

\* the electors that did something only a byzantine elector does (a fork or
\* an out-of-turn event); in both growth policies one elector at most
Byzantine == IF forks > 0 \/ solos > 0 THEN 1 ELSE 0

\* n = 3f + 1 electors of which at most f are byzantine
HonestMajority ==
    /\ (Len(electors) - 1) % 3 = 0
    /\ Byzantine <= (Len(electors) - 1) \div 3

\* C1: agreement.  With n = 3f+1 electors of which at most f are byzantine,
\* a decision returned on a larger view of the history has the same set of
\* eventHashes and the same set of consensusProofHashes as the decision
\* returned first (on a smaller view) for the same block height.
C1_Agreement ==
    (HonestMajority /\ Decision /\ ~decided.isNull) =>
        /\ SameSet(result.eventHashes, decided.eventHashes)
        /\ SameSet(result.consensusProofHashes, decided.consensusProofHashes)

\* C2: findConsensus terminates on every snapshot: once the loop of
\* _tallyBranches has started, it returns (a decided Y-set or no consensus);
\* no event stays in the work list forever.
C2_Terminates == (pc = "tally") ~> (pc = "done")

\* C3: liveness under honest majority.  In a history of 3f+1 = 4 electors
\* that take turns and merge each other's latest events, of which one may be
\* byzantine, findConsensus eventually returns a decision (unless the
\* history reaches its bound first).
C3_Liveness ==
    (Len(electors) = RoundElectors) =>
        <>(Decision \/ ~decided.isNull \/ Len(events) = MaxRoundEvents)

\* the creators of a sequence of events
CreatorsOf(ys) == {Creator(ys[i]) : i \in 1..Len(ys)}

PairedX(y) == xByElector.val[Creator(y)]

\* e is an ancestor of d, or d itself
AncestorOrSelf(e, d) == e \in buildAncestryMap(d)

\* C5 as claimed: the paired X of every decided Y is an ancestor of Y (equal
\* only when s = 1), and every event of consensusProofHashes is a descendant
\* of some decided X and an ancestor of, or equal to, that X's Y.
C5_Containment ==
    Decision =>
        /\ \A i \in 1..Len(result.ys) :
              /\ AncestorOrSelf(PairedX(result.ys[i]), result.ys[i])
              /\ PairedX(result.ys[i]) = result.ys[i] => Supermajority = 1
        /\ \A j \in 1..Len(result.consensusProofHashes) :
              \E i \in 1..Len(result.ys) :
                 LET h == result.consensusProofHashes[j]
                 IN /\ h \in EventIds
                    /\ h # PairedX(result.ys[i])
                    /\ AncestorOrSelf(PairedX(result.ys[i]), h)
                    /\ AncestorOrSelf(h, result.ys[i])

\* C5 amended: as C5, but an event of consensusProofHashes may also be the
\* decided X itself when s = 1 (then the proof is exactly {X}).
C5_ContainmentOrX ==
    Decision =>
        /\ \A i \in 1..Len(result.ys) :
              /\ AncestorOrSelf(PairedX(result.ys[i]), result.ys[i])
              /\ PairedX(result.ys[i]) = result.ys[i] <=> Supermajority = 1
        /\ \A j \in 1..Len(result.consensusProofHashes) :
              \E i \in 1..Len(result.ys) :
                 LET h == result.consensusProofHashes[j]
                 IN /\ h \in EventIds
                    /\ h = PairedX(result.ys[i]) => Supermajority = 1
                    /\ AncestorOrSelf(PairedX(result.ys[i]), h)
                    /\ AncestorOrSelf(h, result.ys[i])
        /\ Supermajority = 1 =>
              result.consensusProofHashes = <<PairedX(result.ys[1])>>

\* a decision with s > 1 whose proof holds events strictly between an X and
\* its Y
C5_Witness ==
    /\ Decision
    /\ Supermajority > 1
    /\ \E j \in 1..Len(result.consensusProofHashes) :
          \E i \in 1..Len(result.ys) :
             /\ result.consensusProofHashes[j] # result.ys[i]
             /\ AncestorOrSelf(PairedX(result.ys[i]), result.consensusProofHashes[j])
             /\ AncestorOrSelf(result.consensusProofHashes[j], result.ys[i])

\* the snapshot merge events reachable through _parents from a decided X
Committed == UNION {buildAncestryMap(PairedX(result.ys[i])) : i \in 1..Len(result.ys)}

\* every hash listed in the parentHash of a committed merge event
ListedByCommitted == UNION {SeqToSet(ParentHash(e)) : e \in Committed}

\* C6: in every returned decision eventHashes is exactly the set of hashes
\* of the merge events reachable through _parents from a decided X (each X
\* included) together with every hash listed in the parentHash of those
\* events, and no hash is listed twice.
C6_CommittedHashes ==
    Decision =>
        /\ SeqToSet(result.eventHashes) = Committed \cup ListedByCommitted
        /\ ListedByCommitted \subseteq SeqToSet(result.eventHashes)
        /\ Cardinality(SeqToSet(result.eventHashes)) = Len(result.eventHashes)

\* a decision that commits merge events beyond the decided Xs and the hash
\* of a regular event that is no merge event of the snapshot
C6_Witness ==
    /\ Decision
    /\ \E h \in SeqToSet(result.eventHashes) : h \notin EventIds
    /\ \E e \in Committed : \A i \in 1..Len(result.ys) : e # PairedX(result.ys[i])

\* the electors that have a tail in the snapshot
WithTail == {c \in ElectorSet : ElectorTails(c) # <<>>}

\* the electors that have an X: exactly one tail
WithX == {c \in ElectorSet : Len(ElectorTails(c)) = 1}

\* the electors that have a Y candidate
WithY == SeqToSet(yByElector.ord)

\* C7: findConsensus returns null whenever fewer than s electors have a
\* tail in the snapshot, or fewer than s electors have an X, or fewer than
\* s electors have a Y candidate.
C7_NullBelowSupermajority ==
    pc = "done" =>
        /\ Cardinality(WithTail) < Supermajority => result.isNull
        /\ Cardinality(WithX) < Supermajority => result.isNull
        /\ Cardinality(WithY) < Supermajority => result.isNull

\* a call that returned null for want of Y candidates only: s electors or
\* more have a tail and an X, some have a Y, fewer than s do
C7_Witness ==
    /\ pc = "done"
    /\ result.isNull
    /\ Cardinality(WithTail) >= Supermajority
    /\ Cardinality(WithX) >= Supermajority
    /\ WithY # {}
    /\ Cardinality(WithY) < Supermajority

\* a call that returned null for want of Xs only
C7_FewXs ==
    /\ pc = "done"
    /\ result.isNull
    /\ Cardinality(WithTail) >= Supermajority
    /\ Cardinality(WithX) < Supermajority

\* a call that returned null for want of tails
C7_FewTails ==
    /\ pc = "done"
    /\ result.isNull
    /\ WithTail # {}
    /\ Cardinality(WithTail) < Supermajority

\* the values listed for 1, 2, 3, 4, 7, 10 and 13 electors
ListedMajority ==
    (1 :> 1) @@ (2 :> 2) @@ (3 :> 3) @@ (4 :> 3) @@ (7 :> 5) @@ (10 :> 7) @@ (13 :> 9)

\* C8: twoThirdsMajority(n) is n for n <= 3 and 2*floor(n/3)+1 for n > 3
\* (every n up to the number of electors), and the supermajority of the
\* electors of the block is the value listed for their number.
C8_TwoThirdsMajority ==
    /\ \A n \in 1..Len(electors) :
          twoThirdsMajority(n) = IF n <= 3 THEN n ELSE 2 * (n \div 3) + 1
    /\ Len(electors) \in DOMAIN ListedMajority =>
          Supermajority = ListedMajority[Len(electors)]

\* findConsensus ran for thirteen electors, of which nine are a supermajority
C8_Witness ==
    /\ pc = "done"
    /\ Len(electors) = 13
    /\ Supermajority = 9
    /\ result.isNull

\* the only elector has exactly one tail, and findConsensus has returned
SingleElector ==
    /\ pc = "done"
    /\ Len(electors) = 1
    /\ Len(ElectorTails(electors[1])) = 1

\* the tail of the only elector
TheTail == ElectorTails(electors[1])[1]

\* the history a1 (tail, no parents) <- a2 <- a3 of the only elector
ThreeInLine ==
    /\ Len(events) = 3
    /\ \A e \in EventIds : Creator(e) = electors[1] /\ ~events[e].regular
    /\ Parents(1) = <<>> /\ Parents(2) = <<1>> /\ Parents(3) = <<2>>
    /\ events[2].treeHash = 1 /\ events[3].treeHash = 2

\* what C9 says of everything but the committed hashes: a decision is
\* returned, X = Y = the tail, and the proof is exactly the tail
DecidesTail ==
    /\ ~result.isNull
    /\ result.ys = <<TheTail>>
    /\ xByElector.val[electors[1]] = TheTail
    /\ yByElector.val[electors[1]] = TheTail
    /\ result.consensusProofHashes = <<TheTail>>

\* C9 as claimed: with one elector that has one tail, findConsensus always
\* returns a decision with X = Y = the tail and proof {tail}, and only the
\* tail is committed.
C9_OnlyTail ==
    SingleElector => (DecidesTail /\ result.eventHashes = <<TheTail>>)

\* C9 amended: as C9, but what is committed is the tail with every merge
\* event reachable from it through _parents and every hash listed in their
\* parentHash; no event that descends from the tail is committed; for the
\* history a1 <- a2 <- a3 the committed eventHashes are exactly {a1}.
C9_TailAndItsAncestors ==
    SingleElector =>
        /\ DecidesTail
        /\ SeqToSet(result.eventHashes) =
              buildAncestryMap(TheTail)
                 \cup UNION {SeqToSet(ParentHash(e)) : e \in buildAncestryMap(TheTail)}
        /\ \A e \in EventIds :
              (e # TheTail /\ AncestorOrSelf(TheTail, e)) =>
                  ~Includes(result.eventHashes, e)
        /\ ThreeInLine => result.eventHashes = <<1>>

\* the decision on the history a1 <- a2 <- a3
C9_Witness ==
    /\ SingleElector
    /\ ThreeInLine
    /\ result = [isNull |-> FALSE, ys |-> <<1>>, eventHashes |-> <<1>>,
                 consensusProofHashes |-> <<1>>]

\* elector c has more than one tail
ManyTails(c) == Len(ElectorTails(c)) > 1

\* the events of elector c that have more than one tree child
ForkPoints(c) == {e \in EventIds : Creator(e) = c /\ Len(TreeChildrenOf(e)) > 1}

\* the electors with an event that descends from x (or is x) and is an
\* ancestor of d (or is d), whatever else those electors did
Endorsers(x, d) ==
    {Creator(e) : e \in {a \in buildAncestryMap(d) : AncestorOrSelf(x, a)}}
        \cap ElectorSet

\* elector c has a Y candidate
HasY(c) == Includes(yByElector.ord, c)

\* C10 as claimed: an elector with more than one tail, or with any event
\* that has more than one tree child, has no Y candidate and is in no
\* decided Y-set.
C10_ByzantineExcluded ==
    pc # "idle" =>
        \A c \in ElectorSet :
           (ManyTails(c) \/ ForkPoints(c) # {}) =>
               /\ ~HasY(c)
               /\ c \notin CreatorsOf(result.ys)

\* C10 amended: an elector with more than one tail has neither X nor Y.
\* With s > 1, an elector that has a Y has no event with more than one tree
\* child before its Y on its branch (a fork at or after Y does not exclude
\* it; with s = 1 no fork does).  Every Y is the earliest event after X on
\* the branch whose ancestry holds events that descend from X of at least s
\* electors, the electors that forked counted like the others.  A decided
\* Y-set holds Y candidates only.
C10_ExcludedUpToY ==
    pc # "idle" =>
        /\ \A c \in ElectorSet :
              /\ ManyTails(c) => (~Includes(xByElector.ord, c) /\ ~HasY(c))
              /\ (HasY(c) /\ Supermajority > 1) =>
                    LET x == xByElector.val[c]
                        y == yByElector.val[c]
                    IN /\ \A e \in ForkPoints(c) : GenerationOf(e) >= GenerationOf(y)
                       /\ TreeParentOf(y) # NoEvent
                       /\ Cardinality(Endorsers(x, y)) >= Supermajority
                       /\ TreeParentOf(y) # x =>
                             Cardinality(Endorsers(x, TreeParentOf(y))) < Supermajority
        /\ CreatorsOf(result.ys) \subseteq SeqToSet(yByElector.ord)

\* an elector that forked before its Y has no Y, and the Y of another
\* elector has its s endorsing electors only when that elector is counted
C10_Witness ==
    /\ pc # "idle"
    /\ Supermajority > 1
    /\ \E c \in ElectorSet :
          /\ ManyTails(c) \/ ForkPoints(c) # {}
          /\ ~HasY(c)
          /\ \E d \in SeqToSet(yByElector.ord) :
                LET seen == Endorsers(xByElector.val[d], yByElector.val[d])
                IN c \in seen /\ Cardinality(seen \ {c}) < Supermajority

\* the byzantine elector of the rounds (the last one) has two tails
TwoTails == Len(ElectorTails(RoundElectors)) = 2

\* the byzantine elector of the rounds has one tail, and that tail has two
\* tree children
TwoChildrenOfTail ==
    /\ Len(ElectorTails(RoundElectors)) = 1
    /\ Len(TreeChildrenOf(ElectorTails(RoundElectors)[1])) = 2

\* the Y candidates of the correct electors of the rounds
CorrectYs == {yByElector.val[c] : c \in 1..(RoundElectors - 1)}

\* C11: with 4 electors (s = 3) of which one has two tails, or two tree
\* children of its tail, a decision that findConsensus returns is exactly
\* the Ys of the three correct electors: each of them has a Y candidate,
\* the byzantine elector has none.  (That such decisions are returned is
\* shown by C11_Witness and C11_WitnessChildren.)
C11_DecidesCorrectYs ==
    (Decision /\ Len(electors) = RoundElectors /\ (TwoTails \/ TwoChildrenOfTail)) =>
        /\ Supermajority = 3
        /\ ~HasY(RoundElectors)
        /\ \A c \in 1..(RoundElectors - 1) : HasY(c)
        /\ SeqToSet(result.ys) = CorrectYs
        /\ Len(result.ys) = 3

\* a decision on a history in which the byzantine elector has two tails
C11_Witness ==
    /\ Decision
    /\ Len(electors) = RoundElectors
    /\ TwoTails
    /\ SeqToSet(result.ys) = CorrectYs

\* a decision on a history in which the tail of the byzantine elector has
\* two tree children
C11_WitnessChildren ==
    /\ Decision
    /\ Len(electors) = RoundElectors
    /\ TwoChildrenOfTail
    /\ SeqToSet(result.ys) = CorrectYs

\* the events added since the first decision was returned
AddedSince == (decided.size + 1)..Len(events)

\* the snapshot extends that of the first decision only by events that are
\* descendants of none of its Y candidates
ExtendedOffYs ==
    /\ ~decided.isNull
    /\ AddedSince # {}
    /\ \A e \in AddedSince :
          \A i \in 1..Len(decided.yCandidates) :
             ~AncestorOrSelf(decided.yCandidates[i], e)

\* C12: stability under extension.  When findConsensus returned decision D
\* on a snapshot and the snapshot is then extended only by events that are
\* descendants of no Y candidate, findConsensus, run anew, returns D again:
\* the same eventHashes and the same consensusProofHashes.
C12_StableUnderExtension ==
    (pc = "done" /\ ExtendedOffYs) =>
        /\ ~result.isNull
        /\ result.eventHashes = decided.eventHashes
        /\ result.consensusProofHashes = decided.consensusProofHashes

\* C12 for n = 3f + 1 electors of which at most f are byzantine: D is
\* returned again on a snapshot extended only by events that are descendants
\* of no Y candidate.
C12_StableHonestMajority == HonestMajority => C12_StableUnderExtension

\* elector c is correct in the snapshot: one tail and a linear branch
Correct(c) == Len(ElectorTails(c)) = 1 /\ ForkPoints(c) = {}

\* no tree descendant of the X of the correct elector c endorses X from a
\* supermajority of distinct electors
Unendorsed(c) ==
    \A d \in EventIds :
       (Creator(d) = c /\ d # ElectorTails(c)[1]) =>
           Cardinality(Endorsers(ElectorTails(c)[1], d)) < Supermajority

\* C14 as claimed: if some correct elector has no tree descendant of its X
\* that endorses X from a supermajority of distinct electors, that elector
\* has no Y candidate and findConsensus returns null.
C14_NoYNoConsensus ==
    pc = "done" =>
        \A c \in ElectorSet :
           (Correct(c) /\ Unendorsed(c)) => (~HasY(c) /\ result.isNull)

\* C14 amended: such an elector has no Y candidate when s > 1 (with s = 1
\* its X is its Y and a decision is returned); findConsensus returns null
\* when fewer than s electors have a Y candidate, and a decision that it
\* returns otherwise holds no Y of that elector.
C14_NoYOfUnendorsed ==
    pc = "done" =>
        \A c \in ElectorSet :
           (Correct(c) /\ Unendorsed(c)) =>
               /\ Supermajority > 1 =>
                     /\ ~HasY(c)
                     /\ c \notin CreatorsOf(result.ys)
                     /\ Cardinality(WithY) < Supermajority => result.isNull
               /\ Supermajority = 1 =>
                     /\ yByElector.val[c] = ElectorTails(c)[1]
                     /\ ~result.isNull

\* a decision made of the Ys of three electors while the fourth, a correct
\* elector whose X is not endorsed by a supermajority, has no Y
C14_Witness ==
    /\ Decision
    /\ Supermajority > 1
    /\ \E c \in ElectorSet :
          /\ Correct(c)
          /\ Unendorsed(c)
          /\ ~HasY(c)
          /\ CreatorsOf(result.ys) = ElectorSet \ {c}

\* the snapshot holds a merge event whose treeHash is not in its parentHash
Malformed ==
    \E e \in EventIds :
       events[e].treeHash # NoEvent /\ ~Includes(ParentHash(e), events[e].treeHash)

\* C15: findConsensus never returns (a decision or null) for a snapshot that
\* holds a merge event whose treeHash is not in its parentHash: the call
\* ends in a fatal error instead.
C15_MalformedIsFatal == Malformed => pc # "done"

\* event e carries no derived field (a field that is null, empty or not set
\* counts as not carried)
Bare(e) ==
    /\ e \in DOMAIN treeParent => treeParent[e] = NoEvent
    /\ e \in DOMAIN treeChildren => treeChildren[e] = <<>>
    /\ e \in DOMAIN generation => generation[e] = 0
    /\ e \in DOMAIN yOf => yOf[e] = NoEvent
    /\ e \in DOMAIN votes => votes[e].ord = <<>>
    /\ e \in DOMAIN supporting => supporting[e] = <<>>
    /\ e \notin tallied
    /\ e \in DOMAIN preCommit => preCommit[e] = NoEvent
    /\ e \in DOMAIN confirmPoint => confirmPoint[e] = NoEvent
    /\ e \in DOMAIN toConfirm => toConfirm[e] = NoEvent

\* a step of findConsensus leaves the events, their order and the electors
\* as they are
SnapshotKept == (pc' # "idle") => (events' = events /\ electors' = electors)

\* C16 as claimed: findConsensus leaves the snapshot as it was, and when it
\* has returned no derived field is attached to any event.
C16_NothingAttached ==
    /\ [](pc = "done" => \A e \in EventIds : Bare(e))
    /\ [][SnapshotKept]_vars

\* the fields that _getElectorBranches attached to event e
BranchFields(e) ==
    /\ treeParent[e] =
          (IF Creator(e) \in ElectorSet /\ Includes(Parents(e), events[e].treeHash)
           THEN events[e].treeHash ELSE NoEvent)
    /\ SeqToSet(treeChildren[e]) = {c \in EventIds : treeParent[c] = e}
    /\ Creator(e) \in ElectorSet =>
          generation[e] = (IF treeParent[e] = NoEvent THEN 1
                           ELSE generation[treeParent[e]] + 1)

\* C16 amended: findConsensus leaves the events, their order and the
\* electors as they were; when it has returned, every event of an elector
\* still carries the _treeParent, _treeChildren and _generation that the
\* call attached (and the events of a tally their votes and support); no
\* derived field is attached once the caller has discarded the snapshot.
C16_AttachedUntilDiscarded ==
    /\ [](pc = "done" =>
            /\ DOMAIN treeParent = EventIds
            /\ \A e \in EventIds : BranchFields(e)
            /\ \A e \in tallied : supporting[e] # <<>> /\ votes[e].val[Creator(e)] = e)
    /\ [](pc = "idle" => (treeParent = <<>> /\ tallied = {} /\ \A e \in EventIds : Bare(e)))
    /\ [][SnapshotKept]_vars

\* findConsensus has returned null from a tally and the events still carry
\* votes, support and a precommit
C16_Witness ==
    /\ pc = "done"
    /\ result.isNull
    /\ \E e \in tallied : preCommit[e] # NoEvent /\ ~Bare(e)

\* the hashes of a list are in ascending order (event hashes are ordered as
\* the numbers that stand for them)
Ascending(hashes) == \A i \in 1..(Len(hashes) - 1) : hashes[i] < hashes[i + 1]

\* C17: the eventHashes and the consensusProofHashes of a returned decision
\* are ordered by event hash.
C17_OrderedByHash ==
    Decision =>
        /\ Ascending(result.eventHashes)
        /\ Ascending(result.consensusProofHashes)

\* C18: for every elector count n >= 1 (up to the number of electors of the
\* call), twoThirdsMajority(n) is at least two thirds of n, and it is n
\* when n <= 3; so is the supermajority that findConsensus has applied.
C18_AtLeastTwoThirds ==
    pc = "done" =>
        /\ \A n \in 1..Len(electors) :
              /\ 3 * twoThirdsMajority(n) >= 2 * n
              /\ n <= 3 => twoThirdsMajority(n) = n
        /\ 3 * Supermajority >= 2 * Len(electors)

RECURSIVE TreePath(_)
\* event e with the events before it on its branch
TreePath(e) == IF e = NoEvent THEN {} ELSE {e} \cup TreePath(treeParent[e])

\* the events on the branch from p up to the tree parent of e
Between(p, e) == {b \in TreePath(treeParent[e]) : p \in TreePath(b)}

\* the electors counted for set at event e: e's own elector and the other
\* electors whose most recent voting event known to e supports set
CountFor(e, set) ==
    1 + Cardinality({c \in SeqToSet(votes[e].ord) \ {Creator(e)} :
                        /\ IsEvent(votes[e].val[c])
                        /\ votes[e].val[c] \in tallied
                        /\ SameSet(supporting[votes[e].val[c]], set)})

\* the decision was returned at cp: cp is the confirm point of a precommit
\* P before it on its branch, P is the precommit of every event from P up
\* to cp, each of which supports exactly the support set of P, the count
\* for that set at cp is at least s, and the set is what was returned
DecidedAt(cp) ==
    /\ IsEvent(toConfirm[cp])
    /\ confirmPoint[toConfirm[cp]] = cp
    /\ toConfirm[cp] \in TreePath(treeParent[cp])
    /\ \A b \in Between(toConfirm[cp], cp) :
          /\ preCommit[b] = toConfirm[cp]
          /\ b \in tallied
          /\ SameSet(supporting[b], supporting[toConfirm[cp]])
    /\ CountFor(cp, supporting[toConfirm[cp]]) >= Supermajority
    /\ result.ys = supporting[toConfirm[cp]]

\* a step in which findConsensus returns a decision
Decides == pc # "done" /\ pc' = "done" /\ ~result'.isNull

\* the decision of this step is returned by the tally of a confirm point
AtConfirmPoint ==
    /\ pc = "tally"
    /\ Visiting # <<>>
    /\ \E cp \in {Head(Visiting)} : DecidedAt(cp)'

\* C19 as claimed: a decision is returned only at an event cp that is the
\* confirm point of a precommit P on its own branch that was not rejected,
\* with every event from P up to cp supporting exactly P's support set and
\* a count of at least s for it at cp; P's support set is what is returned.
C19_OnlyAtConfirmPoint == [][Decides => AtConfirmPoint]_vars

\* C19 amended: as C19 when there is more than one elector; with one
\* elector the decision is returned before any tally (no precommit and no
\* confirm point exist) and is the Y of the elector.  Every event that
\* carries a precommit supports exactly the support set of that precommit.
C19_AtConfirmPointOrAlone ==
    /\ [](\A e \in tallied :
             IsEvent(preCommit[e]) =>
                /\ preCommit[e] \in TreePath(e)
                /\ SameSet(supporting[e], supporting[preCommit[e]]))
    /\ [][Decides =>
          /\ Len(electors) > 1 => AtConfirmPoint
          /\ Len(electors) = 1 =>
                /\ pc = "idle"
                /\ result'.ys = Values(yByElector', 1)
                /\ tallied' = {}]_vars

\* a decision returned at the confirm point that follows its precommit
C19_Witness ==
    /\ Decision
    /\ Len(electors) > 1
    /\ \E cp \in EventIds :
          /\ DecidedAt(cp)
          /\ treeParent[cp] = toConfirm[cp]

\* the precommit that event e inherits from its tree parent
Inherited(e) == IF treeParent[e] = NoEvent THEN NoEvent ELSE preCommit[treeParent[e]]

\* the tally of e rejected the precommit it inherited: the support chosen
\* at e is not the support set of that precommit
RejectedAt(e) ==
    /\ e \in tallied
    /\ IsEvent(Inherited(e))
    /\ ~SameSet(supporting[e], supporting[Inherited(e)])

\* precommit p was rejected at some event
Rejected(p) == \E e \in tallied : RejectedAt(e) /\ Inherited(e) = p

\* C20: when the support chosen at an event differs from the support set of
\* the precommit inherited from its tree parent, neither the event nor any
\* of its tree descendants carries that precommit, the _toConfirm of the
\* precommit's confirm point no longer names it, an event carries no
\* precommit of its branch that its tree parent does not carry, and no
\* decision is returned at a confirm point for a precommit that was rejected.
C20_RejectedForGood ==
    /\ [](\A e \in tallied :
             RejectedAt(e) =>
                /\ \A d \in tallied :
                      e \in TreePath(d) => preCommit[d] # Inherited(e)
                /\ IsEvent(confirmPoint[Inherited(e)]) =>
                      toConfirm[confirmPoint[Inherited(e)]] # Inherited(e))
    /\ [](\A d \in tallied :
             (IsEvent(preCommit[d]) /\ preCommit[d] # d) =>
                Inherited(d) = preCommit[d])
    /\ [][(Decides /\ pc = "tally" /\ Visiting # <<>>) =>
              ~Rejected(toConfirm[Head(Visiting)])]_vars

\* a precommit with a confirm point was rejected, and a decision was
\* returned later for another precommit
C20_Witness ==
    /\ Decision
    /\ \E e \in tallied :
          /\ RejectedAt(e)
          /\ IsEvent(confirmPoint[Inherited(e)])
          /\ toConfirm[confirmPoint[Inherited(e)]] = FalseMark

\* the voting events of v: the entries that are not the byzantine marker
Voting(v) == {v.val[c] : c \in {k \in SeqToSet(v.ord) : IsEvent(v.val[k])}}

\* the support sets of the precommits carried by the votes v visible at
\* event e, with the precommit e inherits from its tree parent
PreCommitSets(e, v) ==
    {SeqToSet(supporting[preCommit[r]]) :
        r \in {q \in Voting(v) : q \in tallied /\ IsEvent(preCommit[q])}}
    \cup (IF IsEvent(Inherited(e)) THEN {SeqToSet(supporting[Inherited(e)])} ELSE {})

\* totally ordered by inclusion
Chain(sets) == \A a, b \in sets : a \subseteq b \/ b \subseteq a

\* the step tallies the event at the head of the queue: its votes are
\* resolved, so _tally is called on it
Tallies ==
    /\ pc = "tally"
    /\ Visiting # <<>>
    /\ (tallied' # tallied \/ pc' = "done")

\* C21: at every event that is tallied, the support sets of the precommits
\* carried by its visible votes, with the precommit it inherits, are totally
\* ordered by inclusion, and the longest of them, which is what
\* _findUnionPreCommitSet returns, is their union.
C21_PreCommitsContained ==
    [][Tallies =>
          \E e \in {Head(Visiting)} :
          \E v \in {Collected(e).v} :
             /\ Chain(PreCommitSets(e, v))
             /\ IsEvent(Inherited(e)) =>
                   SeqToSet(findUnionPreCommitSet(v, Inherited(e)))
                      = UNION PreCommitSets(e, v)]_vars

\* the longest of the sets
LongestOf(sets) == {a \in sets : \A b \in sets : Cardinality(b) <= Cardinality(a)}

\* the sets that a vote of v supports at present
SupportedBy(v) == {SeqToSet(supporting[r]) : r \in Voting(v) \cap tallied}

\* the step tallies the event at the head of the queue and returns no
\* decision: the event gets its _supporting
Supports == Tallies /\ tallied' # tallied

\* C22: the support chosen at the tally of event e.  If e inherits a
\* precommit and a vote visible at e supports a longest one of the support
\* sets of the precommits carried by the visible votes and by the tree
\* parent, e supports such a set; in every other case e supports the set of
\* the Ys of the votes visible at e that are not the byzantine marker.
C22_NextSupport ==
    [][Supports =>
          \E e \in {Head(Visiting)} :
          \E v \in {Collected(e).v} :
          \E longest \in {LongestOf(PreCommitSets(e, v)) \cap SupportedBy(v)} :
             IF IsEvent(Inherited(e)) /\ longest # {}
             THEN SeqToSet(supporting'[e]) \in longest
             ELSE SeqToSet(supporting'[e]) = {yOf'[r] : r \in Voting(v)}]_vars

\* an event was tallied that inherited a precommit and supports the larger
\* support set of a precommit carried by one of its votes
C22_Witness ==
    \E e \in tallied :
       /\ RejectedAt(e)
       /\ \E r \in Voting(votes[e]) \cap tallied :
             /\ r # e
             /\ IsEvent(preCommit[r])
             /\ SeqToSet(supporting[preCommit[r]]) = SeqToSet(supporting[e])
             /\ Cardinality(SeqToSet(supporting[e]))
                   > Cardinality(SeqToSet(supporting[Inherited(e)]))

\* an event was tallied that inherited no precommit and supports the union
\* of the Ys of more than one vote
C22_WitnessYUnion ==
    \E e \in tallied :
       /\ Inherited(e) = NoEvent
       /\ Cardinality(SeqToSet(supporting[e])) > 1
       /\ SeqToSet(supporting[e]) = {yOf[r] : r \in Voting(votes[e])}

\* the tally of e chose the support set of the precommit e inherits
Matches(e, chosen) ==
    IsEvent(Inherited(e)) /\ SameSet(chosen, supporting[Inherited(e)])

Observable(e) ==
    {a \in buildAncestryMap(e) \ {e} :
        \E c \in SeqToSet(yByElector.ord) : yByElector.val[c] \in buildAncestryMap(a)}

\* among the events observable at e are two events of elector c of the same
\* generation, at or after the generation of the Y of c
SeesFork(e, c) ==
    /\ HasY(c)
    /\ \E a, b \in {o \in Observable(e) : Creator(o) = c} :
          /\ a # b
          /\ generation[a] = generation[b]
          /\ generation[a] >= generation[yByElector.val[c]]

\* C24: when the events observable at event e include two events of the same
\* elector with the same generation, at or after the generation of that
\* elector's Y, the entry of that elector in the votes that e is tallied
\* with is the byzantine marker (so the elector adds no count to the tally
\* of e and no Y to its Y-union).
C24_ForkIsMarked ==
    [][Tallies =>
          \E e \in {Head(Visiting)} :
          \E v \in {Collected(e).v} :
             \A c \in ElectorSet :
                SeesFork(e, c) => (Includes(v.ord, c) /\ v.val[c] = FalseMark)]_vars

\* elector c has the byzantine marker in the votes v
Marked(v, c) == Includes(v.ord, c) /\ v.val[c] = FalseMark

\* C25: the byzantine marker is permanent.  An elector that has the marker
\* in the votes of an event has it in the votes of the event's tree
\* children (hence of all tree descendants), and the marker that an event
\* is tallied with is still in its votes after the tally.
C25_MarkerStays ==
    /\ [](\A e \in DOMAIN votes :
             (treeParent[e] # NoEvent /\ votes[e].ord # <<>>) =>
                \A c \in ElectorSet :
                   Marked(votes[treeParent[e]], c) => Marked(votes[e], c))
    /\ [][Supports =>
              \E e \in {Head(Visiting)} :
              \E v \in {Collected(e).v} :
                 \A c \in ElectorSet : Marked(v, c) => Marked(votes'[e], c)]_vars

\* the events of elector c that vote at e: its strict ancestors created by
\* c, of at least the generation of the Y of c
VotersOf(e, c) ==
    {a \in buildAncestryMap(e) \ {e} :
        Creator(a) = c /\ generation[a] >= generation[yByElector.val[c]]}

\* the event of the highest generation among cand
MostRecent(cand) ==
    CHOOSE a \in cand : \A b \in cand : generation[b] <= generation[a]

TreeDescendants(e) == {d \in EventIds : e \in TreePath(treeParent[d])}

\* the strict tree descendants d of e for which the events on the paths
\* from e to d, with the creator of e, come from at least s electors
Confirming(e) ==
    {d \in TreeDescendants(e) : Cardinality(Endorsers(e, d)) >= Supermajority}

\* d is an earliest event of the set ds
Earliest(d, ds) == d \in ds /\ \A b \in ds : generation[d] <= generation[b]

\* C27 as claimed: an event whose chosen set has a count of at least s and
\* that inherits no precommit, or rejects the one it inherits, becomes the
\* precommit of its branch; whenever the snapshot holds a strict tree
\* descendant of the new precommit with endorsements of at least s electors,
\* the earliest such descendant d is its confirm point and _toConfirm of d is
\* the precommit.
C27_PreCommitConfirmPoint ==
    [][Supports =>
          \E e \in {Head(Visiting)} :
          \E chosen \in {supporting'[e]} :
             /\ (CountFor(e, chosen)' >= Supermajority /\ ~Matches(e, chosen)) =>
                   preCommit'[e] = e
             /\ (preCommit'[e] = e /\ Confirming(e) # {}) =>
                   /\ Earliest(confirmPoint'[e], Confirming(e))
                   /\ toConfirm'[confirmPoint'[e]] = e]_vars

\* the strict tree descendants of e reached from e through events that have
\* exactly one tree child (e included, the descendant itself excluded)
LinearDescendants(e) ==
    {d \in TreeDescendants(e) :
        \A b \in Between(e, d) : Len(treeChildren[b]) = 1}

\* C27: an event whose chosen set has a count of at least s and that
\* inherits no precommit, or rejects the one it inherits, becomes the
\* precommit of its branch.  Its confirm point is the earliest strict tree
\* descendant d with endorsements of at least s electors among those that
\* are reached before any event with more than one tree child, and
\* _toConfirm of d is the precommit; there is no confirm point when no such
\* descendant is in the snapshot, and no other tally sets a confirm point.
C27_ConfirmPointOnLinearBranch ==
    [][Supports =>
          \E e \in {Head(Visiting)} :
          \E chosen \in {supporting'[e]} :
          \E ds \in {Confirming(e) \cap LinearDescendants(e)} :
             /\ (CountFor(e, chosen)' >= Supermajority /\ ~Matches(e, chosen)) =>
                   preCommit'[e] = e
             /\ (preCommit'[e] = e /\ ds # {}) =>
                   /\ Earliest(confirmPoint'[e], ds)
                   /\ toConfirm'[confirmPoint'[e]] = e
             /\ (preCommit'[e] = e /\ ds = {}) => confirmPoint'[e] = NoEvent
             /\ preCommit'[e] # e => confirmPoint' = confirmPoint]_vars

\* a precommit whose confirm point is not its tree child: the tree child
\* has too few endorsements
C27_Witness ==
    \E e \in tallied :
       /\ preCommit[e] = e
       /\ IsEvent(confirmPoint[e])
       /\ treeParent[confirmPoint[e]] # e
       /\ toConfirm[confirmPoint[e]] = e
       /\ Cardinality(Endorsers(e, treeChildren[e][1])) < Supermajority

\* a precommit on a forked branch: a tree descendant has endorsements of s
\* electors and the precommit has no confirm point
C27_WitnessFork ==
    \E e \in tallied :
       /\ preCommit[e] = e
       /\ Confirming(e) # {}
       /\ confirmPoint[e] = NoEvent

\* the events waiting in the queues of _tallyBranches
Enqueued == SeqToSet(current) \cup SeqToSet(next)

\* the Y candidates
AllYs == {yByElector.val[c] : c \in SeqToSet(yByElector.ord)}

\* C28: an event is tallied only when every voting event in its votes,
\* other than itself, has been tallied; and an event other than a Y is in
\* the queues of _tallyBranches, or tallied, only when its tree parent has
\* been tallied.
C28_TallyOrder ==
    /\ [](\A e \in tallied : Voting(votes[e]) \ {e} \subseteq tallied)
    /\ [](\A d \in Enqueued \cup tallied :
             d \in AllYs \/ treeParent[d] \in tallied)
    /\ [][Tallies =>
              \E e \in {Head(Visiting)} :
                 Voting(Collected(e).v) \ {e} \subseteq tallied]_vars

\* an event has been put back because a vote is outstanding, while an event
\* of another branch has been tallied with the votes of tallied events of
\* other electors
C28_Witness ==
    /\ \E e \in SeqToSet(next) \ tallied :
          /\ treeParent[e] \in tallied
          /\ Voting(votes[e]) \ (tallied \cup {e}) # {}
    /\ \E e \in tallied \ AllYs :
          \E r \in Voting(votes[e]) \ AllYs : Creator(r) # Creator(e)

\* the Y candidates that are ancestors of y, and y
EndorsedYs(y) == AllYs \cap buildAncestryMap(y)

\* C29 as claimed: the support of a tallied Y candidate is the set of the Y
\* candidates among its ancestors, with itself, and its votes hold for the
\* creator of each of them a voting event of that creator.
C29_InitialSupport ==
    \A y \in AllYs \cap tallied :
       /\ SeqToSet(supporting[y]) = EndorsedYs(y)
       /\ \A z \in EndorsedYs(y) :
             /\ Includes(votes[y].ord, Creator(z))
             /\ IsEvent(votes[y].val[Creator(z)])
             /\ Creator(votes[y].val[Creator(z)]) = Creator(z)

\* the Y candidates among the ancestors of y, and y, whose creator does not
\* have the byzantine marker in the votes of y
UnmarkedYs(y) == {z \in EndorsedYs(y) : ~Marked(votes[y], Creator(z))}

\* C29: the votes of a tallied Y candidate y have an entry for exactly the
\* creators of the Y candidates among its ancestors and for its own
\* creator; each entry is a voting event of that creator or the byzantine
\* marker, and the support of y is the set of those Y candidates whose
\* creator's entry is not the marker (y itself always among them).
C29_SupportOfUnmarked ==
    \A y \in AllYs \cap tallied :
       /\ SeqToSet(supporting[y]) = UnmarkedYs(y)
       /\ y \in UnmarkedYs(y)
       /\ SeqToSet(votes[y].ord) = {Creator(z) : z \in EndorsedYs(y)}
       /\ \A c \in SeqToSet(votes[y].ord) :
             \/ Marked(votes[y], c)
             \/ IsEvent(votes[y].val[c]) /\ Creator(votes[y].val[c]) = c

\* a tallied Y with three Y candidates among its ancestors, one of which is
\* left out of its support because its creator has the byzantine marker
C29_Witness ==
    \E y \in AllYs \cap tallied :
       /\ Cardinality(EndorsedYs(y)) = 4
       /\ Cardinality(UnmarkedYs(y)) = 3

\* a tallied Y that supports all the Y candidates among its ancestors, but
\* not all the Y candidates of the snapshot
C29_WitnessHonest ==
    \E y \in AllYs \cap tallied :
       /\ UnmarkedYs(y) = EndorsedYs(y)
       /\ Cardinality(EndorsedYs(y)) > 1
       /\ EndorsedYs(y) # AllYs

\* the X and the Y candidates have been selected: findConsensus has been
\* called and at least s electors have a tail
Selected == pc # "idle" /\ Len(electorsWithTails) >= Supermajority

SplitBetween(S1) ==
    /\ Len(electors) = 4
    /\ Cardinality(AllYs) = 4
    /\ S1 \subseteq AllYs
    /\ Cardinality(S1) = 2
    /\ \A y \in AllYs :
          \E e \in tallied :
             /\ Creator(e) = Creator(y)
             /\ SeqToSet(supporting[e]) = (IF y \in S1 THEN S1 ELSE AllYs \ S1)

\* event e has among its strict ancestors an event that supports S1 and an
\* event that supports the other two Y candidates
SeesBothSides(e, S1) ==
    \E v1, v2 \in (buildAncestryMap(e) \ {e}) \cap tallied :
       /\ SeqToSet(supporting[v1]) = S1
       /\ SeqToSet(supporting[v2]) = AllYs \ S1

AllCorrect == \A c \in ElectorSet : Correct(c)

RECURSIVE TreeAncestors(_)
\* the strict tree ancestors of e in the snapshot
TreeAncestors(e) ==
    IF TreeParentOf(e) = NoEvent THEN {}
    ELSE {TreeParentOf(e)} \cup TreeAncestors(TreeParentOf(e))

RECURSIVE PathMap(_, _, _)
\* the descendants map after _findDescendantsInPath has been called, from
\* an empty map, for the tree descendants of x one after the other up to y
PathMap(x, y, ancestryMap) ==
    IF y = x THEN EmptyMap
    ELSE findDescendantsInPath(y, PathMap(x, TreeParentOf(y), ancestryMap),
                               ancestryMap)

\* array a is the beginning of array b
StartsWith(b, a) == Len(a) <= Len(b) /\ SubSeq(b, 1, Len(a)) = a

\* C32: after _findDescendantsInPath has been called for x with its tree
\* descendants up to y, with the ancestry of x or x alone as the ancestry
\* map, _flattenDescendants lists exactly the strict descendants of x that
\* are ancestors of y, or y, each once; the call for y only adds to the
\* map that the calls before it left, and a second call for y changes
\* nothing.
C32_DescendantsInPath ==
    fresh =>
       \A y \in EventIds :
       \A x \in TreeAncestors(y) :
       \A ancestryMap \in {buildAncestryMap(x), {x}} :
       \E before \in {PathMap(x, TreeParentOf(y), ancestryMap)} :
       \E after \in {findDescendantsInPath(y, before, ancestryMap)} :
       \E flat \in {flattenDescendants(x, after)} :
          /\ SeqToSet(flat) =
                {e \in buildAncestryMap(y) \ {x} : x \in buildAncestryMap(e)}
          /\ Len(flat) = Cardinality(SeqToSet(flat))
          /\ \A h \in EventIds : StartsWith(after[h], before[h])
          /\ findDescendantsInPath(y, after, ancestryMap) = after

\* an event three generations above x whose call adds a descendant to an
\* entry that an earlier call made, and between which and x there is an
\* event with two parents that descend from x
C32_Witness ==
    /\ fresh
    /\ \E y \in EventIds :
       \E x \in TreeAncestors(y) :
       \E before \in {PathMap(x, TreeParentOf(y), {x})} :
       \E after \in {findDescendantsInPath(y, before, {x})} :
          /\ Cardinality(TreeAncestors(y) \ TreeAncestors(x)) >= 3
          /\ \E h \in EventIds : before[h] # <<>> /\ after[h] # before[h]
          /\ \E e \in SeqToSet(flattenDescendants(x, after)) :
                Cardinality({p \in SeqToSet(Parents(e)) :
                                p # x /\ x \in buildAncestryMap(p)}) >= 2

\* the events of elector c that have no tree parent
Tailless(c) == {e \in EventIds : Creator(e) = c /\ treeParent[e] = NoEvent}

\* C33: when _getElectorBranches has run, the tails listed for an elector
\* are exactly its events without tree parent, each once, and the map has a
\* key for exactly the electors that have one; every event of an elector
\* has generation 1 if it is a tail and the generation of its tree parent
\* plus one otherwise; and e is among the tree children of p, once, exactly
\* when the tree parent of e is p.
C33_Branches ==
    pc # "idle" =>
       /\ \A c \in ElectorSet :
             /\ SeqToSet(ElectorTails(c)) = Tailless(c)
             /\ Len(ElectorTails(c)) = Cardinality(Tailless(c))
       /\ SeqToSet(electorsWithTails) = {c \in ElectorSet : Tailless(c) # {}}
       /\ \A e \in EventIds :
             Creator(e) \in ElectorSet =>
                generation[e] = (IF treeParent[e] = NoEvent THEN 1
                                 ELSE generation[treeParent[e]] + 1)
       /\ \A p \in EventIds :
             /\ SeqToSet(treeChildren[p]) = {e \in EventIds : treeParent[e] = p}
             /\ Len(treeChildren[p]) = Cardinality(SeqToSet(treeChildren[p]))

\* branches with an event that has two tree children and an event of
\* generation four
C33_Witness ==
    /\ pc # "idle"
    /\ \E p \in EventIds : Len(treeChildren[p]) = 2
    /\ \E e \in EventIds : generation[e] = 4 /\ generation[treeParent[e]] = 3

\* branches with an elector that has two tails, and an event of a creator
\* that is no elector
C33_WitnessTails ==
    /\ pc # "idle"
    /\ \E c \in ElectorSet : Len(ElectorTails(c)) = 2
    /\ \E e \in EventIds : Creator(e) \notin ElectorSet

\* the keys of a Map, in insertion order
MapKeys(map) == [i \in 1..Len(map) |-> map[i][1]]

\* the generation that the cache holds for the hash (null when none)
CachedGeneration(headGeneration, h) ==
    IF headGeneration[h] = Nil THEN Nil
    ELSE CHOOSE g \in Generations : ToDecimal(g) = headGeneration[h]

\* C34: getGenerations returns a generationMap whose keys are the given
\* event hashes in the given order, each mapped to its cached generation
\* or to null, and a notFound list of exactly the given hashes that have
\* no cached generation.
C34_GetGenerations ==
    cache.last.op = "getGenerations" =>
        \E asked \in {cache.last.eventHashes} :
        \E held \in {cache.last.headGeneration} :
        \E got \in {cache.last.value} :
            /\ MapKeys(got.generationMap) = Uniq(asked)
            /\ \A i \in 1..Len(got.generationMap) :
                  /\ got.generationMap[i][1] \in CachedHashes
                  /\ got.generationMap[i][2] =
                        CachedGeneration(held, got.generationMap[i][1])
            /\ SeqToSet(got.notFound) =
                  {h \in SeqToSet(asked) : held[h] = Nil}

\* what getMergeStatus has reported: the value returned last and the
\* values on their way to the callers
MergeStatuses ==
    {r \in {cache.last} \cup
            {Returned(cache.replies[i]) : i \in 1..Len(cache.replies)} :
        r.op = "getMergeStatus"}

\* C40: under every interleaving of addLocalRegularEvent,
\* addLocalMergeEvent and getMergeStatus, every hash reported in
\* localChildlessHashes is in the childless set and not in
\* peerChildlessHashes, and no hash that a completed addLocalMergeEvent
\* has removed as a non-tree parent is reported as childless unless it was
\* added again.
C40_ChildlessBookkeeping ==
    \A r \in MergeStatuses :
        /\ r.value.localChildlessHashes \subseteq r.childless
        /\ r.value.localChildlessHashes \cap r.value.peerChildlessHashes = {}
        /\ (r.value.localChildlessHashes \cup r.value.peerChildlessHashes)
              \cap r.removed = {}

\* a status with local and peer childless hashes is returned after a merge
\* event has removed its parent, while another call is in flight
C40_Witness ==
    /\ cache.last.op = "getMergeStatus"
    /\ cache.last.value.localChildlessHashes # {}
    /\ cache.last.value.peerChildlessHashes # {}
    /\ cache.last.removed # {}
    /\ cache.sent # <<>>

\* a hash that a completed merge event has removed is added again and
\* reported
C40_WitnessAddedAgain ==
    /\ cache.last.op = "getMergeStatus"
    /\ cache.last.value.localChildlessHashes \cap cache.again # {}
    /\ cache.last.removed # {}

\* C35: every voting event recorded in the votes of an event is the event
\* itself or one of its ancestors, also on a forked branch.
C35_VotesFromThePast ==
    \A e \in DOMAIN votes :
        Voting(votes[e]) \subseteq buildAncestryMap(e)

\* C36: in a history without byzantine electors the _supporting set of a
\* tallied event is a superset of the _supporting set of its tree parent,
\* when the tree parent has one.
C36_SupportGrows ==
    AllCorrect =>
        \A e \in tallied :
            \A p \in {treeParent[e]} \cap tallied :
                SeqToSet(supporting[p]) \subseteq SeqToSet(supporting[e])

\* a correct history in which an event supports more than its tree parent
\* and a later event keeps the support of its precommit
C36_Witness ==
    /\ AllCorrect
    /\ \E e \in tallied : \E p \in {treeParent[e]} \cap tallied :
          /\ SeqToSet(supporting[p]) # SeqToSet(supporting[e])
          /\ SeqToSet(supporting[p]) # {}
    /\ \E e \in tallied : \E p \in {treeParent[e]} \cap tallied :
          /\ preCommit[p] # NoEvent
          /\ Len(supporting[p]) > Supermajority

\* C38: the precommit of a tallied event is the event itself or a tree
\* ancestor of it, and the event supports what its precommit supports.
C38_PreCommitOnBranch ==
    \A e \in tallied :
        preCommit[e] # NoEvent =>
            /\ preCommit[e] \in TreeAncestors(e) \cup {e}
            /\ preCommit[e] \in tallied
            /\ SameSet(supporting[e], supporting[preCommit[e]])

\* an event carries the precommit of its tree parent's tree parent
C38_Witness ==
    \E e \in tallied :
        /\ preCommit[e] # NoEvent
        /\ treeParent[e] # NoEvent
        /\ preCommit[e] \in TreeAncestors(treeParent[e])

\* an event makes a precommit of its own where the precommit of its tree
\* parent is rejected for another support
C38_WitnessRejected ==
    \E e \in tallied : \E p \in {treeParent[e]} \cap tallied :
        /\ preCommit[e] = e
        /\ preCommit[p] # NoEvent
        /\ ~SameSet(supporting[p], supporting[e])

C39_WitnessCorrect ==
    /\ AllCorrect
    /\ \E e \in tallied :
          /\ Includes(supporting[e], yByElector.val[Creator(e)])
          /\ Len(supporting[e]) > 1
          /\ SeqToSet(supporting[e]) # AllYs


\* C37: order independence.  Whether findConsensus returns a decision, and the
\* sets of eventHashes and consensusProofHashes it returns, are the same for
\* history.events in the order of creation and in the opposite order.  (The
\* electors list is read as a set and for its length only.)
C37_OrderIndependence ==
    (pc = "done" /\ listing.reverse) =>
        /\ result.isNull = listing.first.isNull
        /\ SeqToSet(result.eventHashes) = SeqToSet(listing.first.eventHashes)
        /\ SeqToSet(result.consensusProofHashes)
              = SeqToSet(listing.first.consensusProofHashes)

====
